---- MODULE Spec2Model ----
(***************************************************************************)
(* Model of the tool-calling orchestration of the unified LLM client:      *)
(* AsyncLLMClient.response / AsyncLLMClient.stream (src/llm/client.py) and *)
(* the three provider orchestrators                                        *)
(*   handle_chat_completions_api  (src/llm/chat_completions.py)            *)
(*   handle_responses_api         (src/llm/responses_api.py)               *)
(*   handle_anthropic_api         (src/llm/anthropic.py)                   *)
(* together with their streaming counterparts.                             *)
(*                                                                         *)
(* Python strings are sequences of atoms (TLA+ strings), so that string    *)
(* building (f-strings, json.dumps, str) is concatenation and "contains"   *)
(* is a check of a contiguous subsequence.  Python dicts are records with  *)
(* exactly the keys the code sets.  The vendor API and the registered      *)
(* tools are the environment: the provider chooses every reply (or a       *)
(* failure) when it is called.                                             *)
(***************************************************************************)
EXTENDS Integers, Sequences, FiniteSets, TLC

(***************************************************************************)
(* Bounds of the model.                                                    *)
(***************************************************************************)
\* tool calls the provider emits, in total, during one request
MaxCalls == 2
\* largest max_tool_call_depth a client is constructed with
MaxDepthBound == 2
\* text chunks of one provider stream
MaxChunks == 2

(***************************************************************************)
(* Python values.                                                          *)
(***************************************************************************)
\* None where a string (a sequence of atoms) or a list is expected
None == <<"<None>">>
\* None where a single atom (a name, a type tag, a JSON text) is expected
NoneAtom == "<None>"

\* s contains sub as a contiguous run of atoms (Python: sub in s)
Contains(s, sub) ==
    \E i \in 1..(Len(s) - Len(sub) + 1) : SubSeq(s, i, i + Len(sub) - 1) = sub

\* sequences over S of length at most n
SeqsUpTo(S, n) == UNION {[1..m -> S] : m \in 0..n}

(***************************************************************************)
(* The environment's alphabet: models, tool names, argument strings.       *)
(***************************************************************************)
\* model identifiers, as <<prefix, rest>>
GPT == <<"gpt", "-4o-mini">>
CLAUDE == <<"claude", "-3-5-haiku-latest">>
Models == {GPT, CLAUDE}

USER_INPUT == <<"What is the weather in Paris?">>
INSTRUCTIONS == <<"Be brief.">>
SYSTEM_MESSAGE == <<"Answer in one sentence.">>

\* the text chunks a provider stream is made of
Chunks == {"Hel", "lo ", " world"}

\* len() of the atoms whose length the code takes
StrLen(a) ==
    CASE a = "Hel" -> 3
      [] a = "lo " -> 3
      [] a = " world" -> 6
      [] a = "What is the weather in Paris?" -> 29
      [] a = "Be brief." -> 9
      [] a = "Answer in one sentence." -> 23

RECURSIVE TextLen(_)
TextLen(s) == IF s = <<>> THEN 0 ELSE StrLen(Head(s)) + TextLen(Tail(s))

\* default of parameter max_tokens of response() and stream()
MAX_TOKENS == 4096

\* the JSON argument strings a provider sends with a tool call
ARGS_PARIS == "{\"location\": \"Paris\"}"
ARGS_EMPTY == "{}"
ARGS_BAD == "{location: Paris"

JSON_ERROR == "Expecting property name enclosed in double quotes: line 1 column 2 (char 1)"
MISSING_ARG == "get_weather() missing 1 required positional argument: 'location'"

\* json.loads on an argument string: the parsed mapping, or JSONDecodeError
JsonLoads(s) ==
    CASE s = ARGS_PARIS -> [ok |-> TRUE, val |-> [location |-> "Paris"]]
      [] s = ARGS_EMPTY -> [ok |-> TRUE, val |-> <<>>]
      [] OTHER -> [ok |-> FALSE, err |-> <<JSON_ERROR>>]

\* json.dumps of the dicts the orchestrators serialise: a tool's result and
\* {"error": message}.  No string of the model holds a character json.dumps
\* escapes, so a string value appears between its quotes unchanged.
JsonDumps(d) ==
    IF "error" \in DOMAIN d
    THEN <<"{\"error\": \"">> \o d.error \o <<"\"}">>
    ELSE <<"{\"location\": \"", d.location, "\", \"temperature\": 22, \"unit\": \"",
           d.unit, "\", \"condition\": \"sunny\", \"humidity\": 45, \"wind_speed\": 10}">>

(***************************************************************************)
(* ToolRegistry (src/llm/tooling.py) with one registered tool, get_weather.*)
(***************************************************************************)
INTERNAL_TOOL_TYPES ==
    {"file_search", "web_search", "web_search_preview", "code_interpreter", "retrieval"}

\* ToolRegistry._tools: the registered names
RegisteredTools == {"get_weather"}

has_tool(name) == name \in RegisteredTools

is_internal_tool(tool_type) == tool_type \in INTERNAL_TOOL_TYPES

\* the registered callable get_weather(location, unit="celsius") called as
\* func(**args): its dict, or the TypeError of a missing required argument
get_weather(args) ==
    IF "location" \in DOMAIN args
    THEN [ok |-> TRUE,
          value |-> [location |-> args.location, unit |-> "celsius"]]
    ELSE [ok |-> FALSE, err |-> <<MISSING_ARG>>]

\* ToolRegistry.execute_tool: KeyError for an unregistered name, otherwise the
\* callable's result or the exception it raises (re-raised unchanged)
execute_tool(name, args) ==
    IF ~has_tool(name)
    THEN [ok |-> FALSE, called |-> FALSE,
          err |-> <<"\"Tool '", name, "' not registered\"">>]
    ELSE [called |-> TRUE] @@ get_weather(args)

(***************************************************************************)
(* What the provider sends: replies with tool calls.                       *)
(***************************************************************************)
\* the tool calls a reply may carry: a call of the registered tool with good
\* arguments, with no arguments, with unparsable arguments, a call of an
\* unregistered tool, and a call tagged with a built-in tool type
ToolCallKinds ==
    {[name |-> "get_weather", arguments |-> ARGS_PARIS, type |-> "native"],
     [name |-> "get_weather", arguments |-> ARGS_EMPTY, type |-> "native"],
     [name |-> "get_weather", arguments |-> ARGS_BAD, type |-> "native"],
     [name |-> "search_web", arguments |-> ARGS_PARIS, type |-> "native"],
     [name |-> "get_weather", arguments |-> ARGS_PARIS, type |-> "web_search"]}

Paths == {"completions", "responses", "anthropic"}

\* the type tag a provider family puts on a function tool call
NativeType(path) ==
    CASE path = "completions" -> "function"
      [] path = "responses" -> "function_call"
      [] OTHER -> "tool_use"

TypeTag(path, kind) == IF kind.type = "native" THEN NativeType(path) ELSE kind.type

CallId(n, i) == <<"call_", ToString(n), "_", ToString(i)>>

\* the i-th tool call of the n-th reply, in the provider family's shape:
\* ChatCompletionMessageToolCall, ResponseFunctionToolCall, and the object
\* with id, name and (already structured) input of the Anthropic path
ToolCallObject(path, kind, n, i) ==
    CASE path = "completions" ->
           [id |-> CallId(n, i), type |-> TypeTag(path, kind),
            function |-> [name |-> kind.name, arguments |-> kind.arguments]]
      [] path = "responses" ->
           [call_id |-> CallId(n, i), type |-> TypeTag(path, kind),
            name |-> kind.name, arguments |-> kind.arguments]
      [] OTHER ->
           [id |-> CallId(n, i), type |-> TypeTag(path, kind),
            name |-> kind.name, input |-> JsonLoads(kind.arguments).val]

\* the Anthropic path receives structured input: no unparsable arguments
KindsOf(path) ==
    IF path = "anthropic"
    THEN {k \in ToolCallKinds : JsonLoads(k.arguments).ok}
    ELSE ToolCallKinds

\* the n-th reply of the provider: its id, its text and its usage are those
\* of call n, its tool calls are the provider's choice
Reply(path, n, kinds) ==
    [id |-> <<"resp_", ToString(n)>>,
     text |-> <<"reply ", ToString(n)>>,
     input_tokens |-> 10 * n,
     output_tokens |-> 10 * n + 5,
     tool_calls |-> [i \in 1..Len(kinds) |-> ToolCallObject(path, kinds[i], n, i)]]

\* the errors a vendor call raises: an ordinary failure, and the vendor
\* rejecting the shape of the request (its tools)
VendorErrors ==
    {[type |-> "RateLimitError", msg |-> <<"Rate limit reached">>],
     [type |-> "BadRequestError", msg |-> <<"tools is not supported by this model">>]}

RECURSIVE CountCalls(_)
CountCalls(rs) ==
    IF rs = <<>> THEN 0 ELSE Len(Head(rs).tool_calls) + CountCalls(Tail(rs))

(***************************************************************************)
(* Tool Format Adapter (src/llm/tool_handling.py).                         *)
(***************************************************************************)
\* extract_tool_info: {id, name, type, arguments} of any provider's call
extract_tool_info(tool_call) ==
    LET keys == DOMAIN tool_call
        name0 == IF "name" \in keys THEN tool_call.name ELSE NoneAtom
        args0 == IF "arguments" \in keys THEN tool_call.arguments ELSE NoneAtom
    IN [id |-> IF "call_id" \in keys THEN tool_call.call_id
               ELSE IF "id" \in keys THEN tool_call.id ELSE None,
        type |-> IF "type" \in keys THEN tool_call.type ELSE NoneAtom,
        name |-> IF "function" \in keys /\ name0 = NoneAtom
                 THEN tool_call.function.name ELSE name0,
        arguments |-> IF "function" \in keys /\ args0 = NoneAtom
                      THEN tool_call.function.arguments ELSE args0]

(***************************************************************************)
(* One tool call of a round, per orchestrator: the output fed back, and    *)
(* whether ToolRegistry.execute_tool ran the callable (with which args).   *)
(***************************************************************************)
NotFound(name) == <<"Tool '", name, "' ", "not found in registry">>

\* A variant of CompletionsToolResult that calls the tool without the parsed
\* arguments (sensitivity of C1).
CompletionsToolResultNoArgs(tool_call) ==
    LET function_name == tool_call.function.name
        ran == execute_tool(function_name, <<>>)
    IN IF ~has_tool(function_name)
       THEN [executed |-> FALSE, args |-> <<>>,
             output |-> <<"Error: ">> \o NotFound(function_name)]
       ELSE IF ran.ok
       THEN [executed |-> TRUE, args |-> <<>>, output |-> JsonDumps(ran.value)]
       ELSE [executed |-> TRUE, args |-> <<>>,
             output |-> <<"Error executing tool ", function_name, ": ">> \o ran.err]

\* handle_chat_completions_api, the body of `for tool_call in message.tool_calls`
CompletionsToolResult(tool_call) ==
    LET function_name == tool_call.function.name
        parsed == JsonLoads(tool_call.function.arguments)
        ran == execute_tool(function_name, parsed.val)
    IN IF ~has_tool(function_name)
       THEN [executed |-> FALSE, args |-> <<>>,
             output |-> <<"Error: ">> \o NotFound(function_name)]
       ELSE IF ~parsed.ok
       THEN [executed |-> FALSE, args |-> <<>>,
             output |-> <<"Invalid JSON arguments for tool ", function_name, ": ">>
                        \o parsed.err]
       ELSE IF ran.ok
       THEN [executed |-> TRUE, args |-> parsed.val, output |-> JsonDumps(ran.value)]
       ELSE [executed |-> TRUE, args |-> parsed.val,
             output |-> <<"Error executing tool ", function_name, ": ">> \o ran.err]

\* A variant of ResponsesToolResult whose error outputs leave out the
\* underlying message (sensitivity of C6).
ResponsesToolResultTerse(function_call) ==
    LET function_name == function_call.name
        parsed == JsonLoads(function_call.arguments)
        ran == execute_tool(function_name, parsed.val)
    IN IF ~has_tool(function_name)
       THEN [executed |-> FALSE, args |-> <<>>,
             output |-> <<"Error: ">> \o NotFound(function_name)]
       ELSE IF ~parsed.ok
       THEN [executed |-> FALSE, args |-> <<>>,
             output |-> <<"Invalid JSON arguments for tool ", function_name>>]
       ELSE IF ran.ok
       THEN [executed |-> TRUE, args |-> parsed.val, output |-> JsonDumps(ran.value)]
       ELSE [executed |-> TRUE, args |-> parsed.val,
             output |-> <<"Error executing tool ", function_name>>]

\* handle_responses_api, the body of `for function_call in function_calls`
ResponsesToolResult(function_call) ==
    LET function_name == function_call.name
        parsed == JsonLoads(function_call.arguments)
        ran == execute_tool(function_name, parsed.val)
    IN IF ~has_tool(function_name)
       THEN [executed |-> FALSE, args |-> <<>>,
             output |-> <<"Error: ">> \o NotFound(function_name)]
       ELSE IF ~parsed.ok
       THEN [executed |-> FALSE, args |-> <<>>,
             output |-> <<"Invalid JSON arguments for tool ", function_name, ": ">>
                        \o parsed.err]
       ELSE IF ran.ok
       THEN [executed |-> TRUE, args |-> parsed.val, output |-> JsonDumps(ran.value)]
       ELSE [executed |-> TRUE, args |-> parsed.val,
             output |-> <<"Error executing tool ", function_name, ": ">> \o ran.err]

\* handle_anthropic_api, the body of `for tool_call in response.tool_calls`:
\* the output stored in tool_inputs is the raw result or an {"error": ...} dict
AnthropicToolResult(tool_call) ==
    LET tool_name == tool_call.name
        ran == execute_tool(tool_name, tool_call.input)
    IN IF ~has_tool(tool_name)
       THEN [executed |-> FALSE, args |-> <<>>,
             output |-> [error |-> NotFound(tool_name)]]
       ELSE IF ran.ok
       THEN [executed |-> TRUE, args |-> tool_call.input, output |-> ran.value]
       ELSE [executed |-> TRUE, args |-> tool_call.input,
             output |-> [error |-> ran.err]]

\* the function calls handle_responses_api picks out of response.output
IsFunctionCall(item) ==
    /\ extract_tool_info(item).name # NoneAtom
    /\ item.type = "function_call"
    /\ ~is_internal_tool(item.type)

DetectFunctionCalls(output) == SelectSeq(output, IsFunctionCall)

(***************************************************************************)
(* Request building.                                                       *)
(***************************************************************************)
\* user_input as the caller passes it: a str or a list of Message dicts
UserInputs ==
    {[isstr |-> TRUE, val |-> USER_INPUT],
     [isstr |-> FALSE,
      val |-> <<[role |-> "system", content |-> SYSTEM_MESSAGE],
                [role |-> "user", content |-> USER_INPUT]>>]}

HasRole(msgs, r) == \E i \in 1..Len(msgs) : msgs[i].role = r

\* prepare_messages, the loop over a message list
RECURSIVE prepare_list(_, _)
prepare_list(rest, messages) ==
    IF rest = <<>> THEN messages
    ELSE LET msg == Head(rest)
         IN IF msg.role = "system" /\ HasRole(messages, "system")
            THEN prepare_list(Tail(rest), messages)
            ELSE IF msg.role = "developer"
            THEN prepare_list(Tail(rest),
                     Append(messages, [role |-> "system", content |-> msg.content]))
            ELSE prepare_list(Tail(rest), Append(messages, msg))

\* prepare_messages(user_input, instructions) of chat_completions.py
prepare_messages(input, instr) ==
    LET first == IF instr # None
                 THEN <<[role |-> "system", content |-> instr]>> ELSE <<>>
    IN IF input.isstr
       THEN Append(first, [role |-> "user", content |-> input.val])
       ELSE prepare_list(input.val, first)

\* the tools of a request: the registry's schemas (one per registered tool)
\* in the shape named, "registry" being get_schemas' own untranslated shape
api_tools(shape) == [names |-> <<"get_weather">>, shape |-> shape]

\* str.startswith on a model identifier, a sequence of atoms whose first atom is its family prefix
StartsWith(m, prefixes) == Len(m) > 0 /\ m[1] \in prefixes

CLAUDE_PREFIXES == {"claude", "anthropic"}
OPENAI_PREFIXES == {"gpt", "o1", "o3", "text-", "dall-e"}
LOCAL_PREFIXES == {"llama", "qwen", "mistral", "phi", "gemma", "mixtral"}

\* a variant that knows no default provider
detect_provider_strict(m, key) ==
    IF StartsWith(m, CLAUDE_PREFIXES) THEN "anthropic"
    ELSE IF StartsWith(m, OPENAI_PREFIXES) THEN "openai"
    ELSE IF StartsWith(m, LOCAL_PREFIXES) \/ key = "ollama" THEN "ollama"
    ELSE "unsupported"

\* AsyncLLMClient._detect_provider for a client whose api_key attribute is `key`
detect_provider_for(m, key) ==
    IF StartsWith(m, CLAUDE_PREFIXES) THEN "anthropic"
    ELSE IF StartsWith(m, OPENAI_PREFIXES) THEN "openai"
    ELSE IF StartsWith(m, LOCAL_PREFIXES) \/ key = "ollama" THEN "ollama"
    ELSE "openai"

\* the api_key of the client of the orchestrator model
API_KEY == "sk-test"

\* AsyncLLMClient._detect_provider of that client
detect_provider(m) == detect_provider_for(m, API_KEY)

\* handle_anthropic_api, the conversion of a message list: the messages
RECURSIVE anthropic_messages(_, _)
anthropic_messages(rest, messages) ==
    IF rest = <<>> THEN messages
    ELSE LET msg == Head(rest)
             lastAsst == {i \in 1..Len(messages) :
                            /\ messages[i].role = "assistant"
                            /\ \A j \in (i+1)..Len(messages) :
                                  messages[j].role # "assistant"}
             attached(m) ==
                 [tool_responses |->
                    (IF "tool_responses" \in DOMAIN m THEN m.tool_responses ELSE <<>>)
                    \o <<[tool_call_id |-> IF "tool_call_id" \in DOMAIN msg
                                           THEN msg.tool_call_id ELSE <<"unknown">>,
                          content |-> msg.content]>>] @@ m
         IN CASE msg.role \in {"user", "assistant"} ->
                   anthropic_messages(Tail(rest),
                       Append(messages, [role |-> msg.role, content |-> msg.content]))
              [] msg.role = "tool" ->
                   anthropic_messages(Tail(rest),
                       [i \in 1..Len(messages) |->
                          IF i \in lastAsst THEN attached(messages[i]) ELSE messages[i]])
              [] OTHER -> anthropic_messages(Tail(rest), messages)

\* handle_anthropic_api, the conversion of a message list: the system prompt
\* (the last system/developer entry, else the instructions, else "")
RECURSIVE anthropic_system(_, _)
anthropic_system(rest, system) ==
    IF rest = <<>> THEN system
    ELSE IF Head(rest).role \in {"system", "developer"}
    THEN anthropic_system(Tail(rest), Head(rest).content)
    ELSE anthropic_system(Tail(rest), system)

OrEmpty(instr) == IF instr = None THEN <<>> ELSE instr

AnthropicSystem(input, instr) ==
    IF input.isstr THEN OrEmpty(instr)
    ELSE LET sys == anthropic_system(input.val, None)
         IN IF sys = None THEN OrEmpty(instr) ELSE sys

AnthropicMessages(input) ==
    IF input.isstr THEN <<[role |-> "user", content |-> input.val]>>
    ELSE anthropic_messages(input.val, <<>>)

\* request_params of handle_anthropic_api
AnthropicRequest(m, input, instr) ==
    [api |-> "messages.create", model |-> m, stream |-> FALSE,
     max_tokens |-> MAX_TOKENS,
     system |-> AnthropicSystem(input, instr),
     messages |-> AnthropicMessages(input),
     tools |-> api_tools("anthropic")]

\* tool_results of handle_anthropic_api: json.dumps of a dict output
AnthropicToolResults(tool_inputs) ==
    [i \in 1..Len(tool_inputs) |->
       [tool_call_id |-> tool_inputs[i].tool_call_id,
        output |-> JsonDumps(tool_inputs[i].output)]]

\* follow_up_params of handle_anthropic_api
AnthropicFollowUpRequest(m, input, instr, response_text, tool_inputs) ==
    [api |-> "messages.create", model |-> m, stream |-> FALSE,
     max_tokens |-> MAX_TOKENS,
     system |-> AnthropicSystem(input, instr),
     messages |-> Append(AnthropicMessages(input),
                         [role |-> "assistant", content |-> response_text]),
     tool_results |-> AnthropicToolResults(tool_inputs),
     tools |-> api_tools("anthropic")]

\* completion_params of handle_chat_completions_api
CompletionsRequest(m, msgs) ==
    [api |-> "chat.completions.create", model |-> m, stream |-> FALSE,
     max_tokens |-> MAX_TOKENS,
     messages |-> msgs, tools |-> api_tools("completions")]

\* A variant of FunctionCallOutputs that files every output under the id 'unknown'
\* (sensitivity of C31).
FunctionCallOutputsUnknown(outs) ==
    [i \in 1..Len(outs) |->
       [type |-> "function_call_output", call_id |-> <<"unknown">>,
        output |-> outs[i].output]]

\* the function_call_output entries handle_responses_api appends to the input
FunctionCallOutputs(outs) ==
    [i \in 1..Len(outs) |->
       [type |-> "function_call_output", call_id |-> outs[i].id,
        output |-> outs[i].output]]

\* response_params of handle_responses_api
ResponsesRequest(m, input, instr, prev, outs) ==
    LET withInstr == IF input.isstr THEN instr # None
                     ELSE instr # None /\ ~HasRole(input.val, "system")
        inputList == IF input.isstr
                     THEN <<[role |-> "user", content |-> input.val]>>
                     ELSE input.val
    IN (IF outs # <<>>
        THEN [input |-> inputList \o FunctionCallOutputs(outs),
              include |-> <<"file_search_call.results">>]
        ELSE <<>>)
       @@ (IF prev # None THEN [previous_response_id |-> prev] ELSE <<>>)
       @@ (IF withInstr THEN [instructions |-> instr] ELSE <<>>)
       @@ [api |-> "responses.create", model |-> m, stream |-> FALSE,
           max_output_tokens |-> MAX_TOKENS,
           input |-> input.val,
           tools |-> IF input.isstr THEN api_tools("responses")
                     ELSE api_tools("registry")]

(***************************************************************************)
(* The values returned and raised.                                         *)
(***************************************************************************)
MAX_DEPTH_TEXT ==
    <<"I've reached the maximum number of tool calls I can make for this request. Please provide more specific instructions if needed.">>

\* the dict returned by the depth check of handle_chat_completions_api
CompletionsDepthResponse ==
    [text |-> MAX_DEPTH_TEXT, input_tokens |-> 0, output_tokens |-> 0,
     response_id |-> None]

\* the dict returned by the depth check of handle_responses_api
ResponsesDepthResponse ==
    [text |-> MAX_DEPTH_TEXT, input_tokens |-> 0, output_tokens |-> 0,
     response_id |-> None, sources |-> <<>>]

\* the final dict of handle_chat_completions_api
CompletionsResponse(completion) ==
    [text |-> completion.text, input_tokens |-> completion.input_tokens,
     output_tokens |-> completion.output_tokens, response_id |-> None]

\* A variant of ResponsesResponse that hands no response id back (sensitivity of C32).
ResponsesResponseNoId(response) ==
    [text |-> response.text, input_tokens |-> response.input_tokens,
     output_tokens |-> response.output_tokens, response_id |-> None,
     sources |-> <<>>]

\* the final dict of handle_responses_api (no file citation in the output)
ResponsesResponse(response) ==
    [text |-> response.text, input_tokens |-> response.input_tokens,
     output_tokens |-> response.output_tokens, response_id |-> response.id,
     sources |-> <<>>]

\* the dicts handle_anthropic_api returns
AnthropicResponse(response) ==
    [text |-> response.text, input_tokens |-> response.input_tokens,
     output_tokens |-> response.output_tokens, response_id |-> response.id,
     sources |-> None]

\* A variant of ResponseError that re-raises the vendor error's message under
\* a new exception without chaining it (sensitivity of C10).
ResponseErrorUnchained(m, e) ==
    [type |-> "Exception",
     msg |-> <<"Error getting response from ">> \o m \o <<": ">> \o e.msg]

\* `raise Exception(f"Error getting response from {model}: {str(e)}") from e`
ResponseError(m, e) ==
    [type |-> "Exception",
     msg |-> <<"Error getting response from ">> \o m \o <<": ">> \o e.msg,
     cause |-> e]

\* `raise Exception(f"Error streaming response from {model}: {str(e)}") from e`
StreamError(m, e) ==
    [type |-> "Exception",
     msg |-> <<"Error streaming response from ">> \o m \o <<": ">> \o e.msg,
     cause |-> e]

(***************************************************************************)
(* State.                                                                  *)
(***************************************************************************)
VARIABLES
    entry,                 \* "client": AsyncLLMClient.response/stream; "handler": the orchestrator called directly
    op,                    \* "response" or "stream"
    model,                 \* the model identifier
    use_responses_api,     \* the flag of response()/stream()
    user_input,            \* parameter user_input of the current handler call
    instructions,          \* parameter instructions of the current handler call
    max_tool_call_depth,   \* parameter max_tool_call_depth
    current_tool_call_depth, \* parameter current_tool_call_depth
    previous_response_id,  \* parameter previous_response_id (Responses path)
    tool_outputs,          \* kwargs["tool_outputs"] (Responses path), <<>> when absent
    pc,                    \* where the request is
    requests,              \* every request sent to the vendor API, in order
    replies,               \* every reply received from the vendor API, in order
    messages,              \* local `messages` of handle_chat_completions_api
    tool_responses,        \* local tool_responses / tool_outputs / tool_inputs of the round
    idx,                   \* index of the next tool call of the round
    invocations,           \* every ToolRegistry.execute_tool that ran the callable
    started,               \* the ids of the tool calls whose execute_tool has been entered
    result,                \* what the caller got: a returned dict or a raised exception
    stream,                \* the events of the provider stream not yet consumed
    full_text,             \* local full_text of the stream_* functions
    input_tokens,          \* local input_tokens
    output_tokens,         \* local output_tokens
    response_id,           \* local response_id
    stream_handler,        \* parameter stream_handler of stream(): what kind of callable the caller passed
    handled,               \* the chunks stream_handler was called with, in order
    reg_tools,             \* ToolRegistry._tools: the insertion-ordered dict name -> callable
    schema_cache,          \* ToolRegistry._schema_cache: provider -> list of schemas
    cache_valid,           \* ToolRegistry._cache_valid: provider -> bool
    reg_last,              \* the latest ToolRegistry call (or in-place change of a schema it returned) and its outcome
    route,                 \* a call of _detect_provider/response: the model, the client's api_key, the outcome
    llm_client,            \* one AsyncLLMClient: its constructor arguments, self.openai_client, self._using_ollama, the calls served
    task,                  \* a thread inside ToolRegistry.get_schemas: where it is, for which provider
    cite,                  \* the sources of a Responses-API reply: the provider output, the list collected
    built,                 \* a request built from a conversation: the inputs and the request
    tools_list,            \* the list a caller passes to prepare_tools_for_api, as it is now
    api_type,              \* the api_type it passes
    prepared               \* the call of prepare_tools_for_api: the list as given and the value returned

registryVars == <<reg_tools, schema_cache, cache_valid, reg_last>>

adapterVars == <<tools_list, api_type, prepared>>

threadVars == <<task>>

endpointVars == <<llm_client>>

handlerVars == <<stream_handler>>

otherVars == <<registryVars, adapterVars, threadVars, endpointVars, handlerVars, route, built, cite>>

streamVars == <<stream, full_text, input_tokens, output_tokens, response_id, handled>>

vars == <<otherVars, streamVars, entry, op, model, use_responses_api, user_input, instructions,
          max_tool_call_depth, current_tool_call_depth, previous_response_id,
          tool_outputs, pc, requests, replies, messages, tool_responses, idx,
          invocations, started, result>>

\* a previous_response_id the caller of response() supplies: the id of a response of an
\* earlier conversation turn
CALLER_RESPONSE_ID == <<"resp_", "earlier">>

\* the callables a caller passes as stream_handler: a coroutine function (calling it
\* gives an awaitable), or a plain function (calling it gives a value, None say)
StreamHandlers == {"coroutine", "plain"}

\* `if not stream_handler: stream_handler = lambda chunk: None` of AsyncLLMClient.stream
EffectiveHandler(handler) == IF handler = "absent" THEN "plain" ELSE handler

\* the TypeError of `await stream_handler(content)` when the call gives None
AWAIT_NONE ==
    [type |-> "TypeError",
     msg |-> <<"object NoneType can't be used in 'await' expression">>]

NoResult == [kind |-> "none"]
Return(v) == [kind |-> "return", value |-> v]
Raise(e) == [kind |-> "raise", error |-> e]

\* the orchestrator the request is dispatched to (AsyncLLMClient.response)
Path ==
    IF detect_provider(model) = "anthropic" THEN "anthropic"
    ELSE IF use_responses_api THEN "responses"
    ELSE "completions"

Last(s) == s[Len(s)]

\* no thread is inside get_schemas
NoTask == [pc |-> "idle"]

\* no AsyncLLMClient whose endpoints are followed
NoClient == [constructed |-> FALSE]

\* a ToolRegistry nobody calls: get_weather registered, nothing cached
RegistryIdle ==
    /\ reg_tools = <<[name |-> "get_weather", func |-> "get_weather"]>>
    /\ schema_cache = <<>>
    /\ cache_valid = <<>>
    /\ reg_last = [op |-> "none"]
    /\ task = NoTask
    /\ llm_client = NoClient

\* prepare_tools_for_api not called by anybody
AdapterIdle ==
    /\ route = [called |-> FALSE, model |-> GPT, api_key |-> API_KEY]
    /\ built = [called |-> FALSE]
    /\ cite = [done |-> FALSE]
    /\ tools_list = <<>>
    /\ api_type = "responses"
    /\ prepared = [called |-> FALSE]

Init ==
    /\ RegistryIdle
    /\ AdapterIdle
    /\ entry \in {"client", "handler"}
    /\ op \in {"response", "stream"}
    /\ model \in Models
    /\ use_responses_api \in BOOLEAN
    /\ user_input \in UserInputs
    /\ instructions \in {None, INSTRUCTIONS}
    /\ max_tool_call_depth \in 0..MaxDepthBound
    /\ current_tool_call_depth \in
         IF entry = "client" \/ op = "stream" \/ detect_provider(model) = "anthropic"
         THEN {0}
         ELSE 0..(max_tool_call_depth + 1)
    /\ previous_response_id \in
         IF op = "response" /\ use_responses_api /\ detect_provider(model) # "anthropic"
         THEN {None, CALLER_RESPONSE_ID}
         ELSE {None}
    /\ tool_outputs = <<>>
    /\ pc = "enter"
    /\ requests = <<>>
    /\ replies = <<>>
    /\ messages = <<>>
    /\ tool_responses = <<>>
    /\ idx = 0
    /\ invocations = <<>>
    /\ started = <<>>
    /\ result = NoResult
    /\ stream = <<>>
    /\ full_text = <<>>
    /\ input_tokens = 0
    /\ output_tokens = 0
    /\ response_id = None
    /\ handled = <<>>
    /\ stream_handler \in
         IF op # "stream" THEN {"coroutine"}
         ELSE IF entry = "client" THEN StreamHandlers \cup {"absent"}
         ELSE StreamHandlers

(***************************************************************************)
(* AsyncLLMClient.response and the three orchestrators.                    *)
(***************************************************************************)
\* the tool calls of the latest reply that the orchestrator processes
RoundCalls ==
    CASE Path = "completions" -> Last(replies).tool_calls
      [] Path = "responses" -> DetectFunctionCalls(Last(replies).tool_calls)
      [] OTHER -> Last(replies).tool_calls

\* the condition under which a reply starts a tool-call round:
\*   `message.tool_calls and current_tool_call_depth < max_tool_call_depth`
\*   `function_calls and current_tool_call_depth < max_tool_call_depth`
\*   `hasattr(response, 'tool_calls') and response.tool_calls`
HasRound ==
    /\ RoundCalls # <<>>
    /\ Path = "anthropic" \/ current_tool_call_depth < max_tool_call_depth

\* the depth check at the top of handle_chat_completions_api and
\* handle_responses_api
DepthExceeded ==
    /\ Path \in {"completions", "responses"}
    /\ current_tool_call_depth > max_tool_call_depth

\* the request the orchestrator builds on entry
EntryRequest ==
    CASE Path = "completions" ->
           CompletionsRequest(model, prepare_messages(user_input, instructions))
      [] Path = "responses" ->
           ResponsesRequest(model, user_input, instructions, previous_response_id,
                            tool_outputs)
      [] OTHER -> AnthropicRequest(model, user_input, instructions)

\* what the caller of the request sees of an exception raised by a vendor
\* call: AsyncLLMClient.response wraps it, a handler called directly does not
Propagate(e) ==
    IF entry = "client"
    THEN IF op = "response" THEN ResponseError(model, e) ELSE StreamError(model, e)
    ELSE e

\* The depth check fires: the canned response, no vendor call.
MaxDepthFallback ==
    /\ pc = "enter" /\ op = "response"
    /\ DepthExceeded
    /\ result' = Return(IF Path = "completions" THEN CompletionsDepthResponse
                        ELSE ResponsesDepthResponse)
    /\ pc' = "done"
    /\ UNCHANGED <<otherVars, streamVars, entry, op, model, use_responses_api, user_input, instructions,
                   max_tool_call_depth, current_tool_call_depth,
                   previous_response_id, tool_outputs, requests, replies, messages,
                   tool_responses, idx, invocations, started>>

\* The orchestrator builds its request and calls the vendor API.
SendRequest ==
    /\ pc = "enter" /\ op = "response"
    /\ ~DepthExceeded
    /\ requests' = Append(requests, EntryRequest)
    /\ messages' = IF Path = "completions"
                   THEN prepare_messages(user_input, instructions) ELSE messages
    /\ pc' = "await"
    /\ UNCHANGED <<otherVars, streamVars, entry, op, model, use_responses_api, user_input, instructions,
                   max_tool_call_depth, current_tool_call_depth,
                   previous_response_id, tool_outputs, replies, tool_responses,
                   idx, invocations, started, result>>

\* The vendor API answers the orchestrator's request.
ProviderReply ==
    /\ pc = "await"
    /\ \E kinds \in SeqsUpTo(KindsOf(Path), MaxCalls - CountCalls(replies)) :
          replies' = Append(replies, Reply(Path, Len(requests), kinds))
    /\ pc' = "scan"
    /\ UNCHANGED <<otherVars, streamVars, entry, op, model, use_responses_api, user_input, instructions,
                   max_tool_call_depth, current_tool_call_depth,
                   previous_response_id, tool_outputs, requests, messages,
                   tool_responses, idx, invocations, started, result>>

\* The vendor call raises: no orchestrator catches it, it reaches the caller.
ProviderFails ==
    /\ pc \in {"await", "await_followup", "await_stream", "streaming"}
    /\ \E e \in VendorErrors : result' = Raise(Propagate(e))
    /\ pc' = "done"
    /\ UNCHANGED <<otherVars, streamVars, entry, op, model, use_responses_api, user_input, instructions,
                   max_tool_call_depth, current_tool_call_depth,
                   previous_response_id, tool_outputs, requests, replies, messages,
                   tool_responses, idx, invocations, started>>

\* The reply carries tool calls to process: the round starts (the Chat
\* Completions path first appends the assistant message with its tool_calls).
StartRound ==
    /\ pc = "scan"
    /\ HasRound
    /\ messages' = IF Path = "completions"
                   THEN Append(messages,
                               [role |-> "assistant", content |-> Last(replies).text,
                                tool_calls |-> Last(replies).tool_calls])
                   ELSE messages
    /\ tool_responses' = <<>>
    /\ idx' = 1
    /\ pc' = "tools"
    /\ UNCHANGED <<otherVars, streamVars, entry, op, model, use_responses_api, user_input, instructions,
                   max_tool_call_depth, current_tool_call_depth,
                   previous_response_id, tool_outputs, requests, replies,
                   invocations, started, result>>

\* No round: the reply is returned as it is.
ReturnResponse ==
    /\ pc = "scan"
    /\ ~HasRound
    /\ result' = Return(CASE Path = "completions" -> CompletionsResponse(Last(replies))
                          [] Path = "responses" -> ResponsesResponse(Last(replies))
                          [] OTHER -> AnthropicResponse(Last(replies)))
    /\ pc' = "done"
    /\ UNCHANGED <<otherVars, streamVars, entry, op, model, use_responses_api, user_input, instructions,
                   max_tool_call_depth, current_tool_call_depth,
                   previous_response_id, tool_outputs, requests, replies, messages,
                   tool_responses, idx, invocations, started>>

\* tool_inputs[key] = value on the insertion-ordered dict of the Anthropic path
DictSet(d, key, value) ==
    IF \E i \in 1..Len(d) : d[i].tool_call_id = key
    THEN [i \in 1..Len(d) |-> IF d[i].tool_call_id = key THEN value ELSE d[i]]
    ELSE Append(d, value)

\* the id under which the orchestrator files the result of a tool call
ResultId(call) == IF Path = "responses" THEN call.call_id ELSE call.id

\* what the loop body of the path makes of a tool call
ToolResultOf(call) ==
    CASE Path = "completions" -> CompletionsToolResult(call)
      [] Path = "responses" -> ResponsesToolResult(call)
      [] OTHER -> AnthropicToolResult(call)

\* A variant of ToolStart that enters execute_tool for the next call of the round while
\* the tool of an earlier call is still running (sensitivity of C30).
ToolStartAhead ==
    /\ pc = "tools"
    /\ LET next == idx + (Len(started) - Len(invocations))
       IN /\ next <= Len(RoundCalls)
          /\ ToolResultOf(RoundCalls[next]).executed
          /\ started' = Append(started, ResultId(RoundCalls[next]))
    /\ UNCHANGED <<otherVars, streamVars, entry, op, model, use_responses_api, user_input, instructions,
                   max_tool_call_depth, current_tool_call_depth,
                   previous_response_id, tool_outputs, pc, requests, replies,
                   messages, tool_responses, idx, invocations, result>>

\* The loop body reaches `await tool_registry.execute_tool(...)` for the call at hand: the
\* tool starts. The loop is suspended until it completes or raises.
ToolStart ==
    /\ pc = "tools"
    /\ idx <= Len(RoundCalls)
    /\ ToolResultOf(RoundCalls[idx]).executed
    /\ Len(started) = Len(invocations)
    /\ started' = Append(started, ResultId(RoundCalls[idx]))
    /\ UNCHANGED <<otherVars, streamVars, entry, op, model, use_responses_api, user_input, instructions,
                   max_tool_call_depth, current_tool_call_depth,
                   previous_response_id, tool_outputs, pc, requests, replies,
                   messages, tool_responses, idx, invocations, result>>

\* One iteration of the loop over the round's tool calls is completed: the tool, if one was
\* started, has returned or raised, and the result of the call is filed.
ExecuteToolCall ==
    /\ pc = "tools"
    /\ idx <= Len(RoundCalls)
    /\ ToolResultOf(RoundCalls[idx]).executed => Len(started) > Len(invocations)
    /\ LET call == RoundCalls[idx]
           r == ToolResultOf(call)
       IN /\ tool_responses' =
               CASE Path = "completions" ->
                      Append(tool_responses,
                             [tool_call_id |-> call.id, output |-> r.output])
                 [] Path = "responses" ->
                      Append(tool_responses,
                             [id |-> call.call_id, output |-> r.output])
                 [] OTHER ->
                      DictSet(tool_responses, call.id,
                              [tool_call_id |-> call.id, output |-> r.output])
          /\ invocations' =
               IF r.executed
               THEN Append(invocations,
                           [name |-> extract_tool_info(call).name, args |-> r.args,
                            tool_call_id |-> ResultId(call), type |-> call.type])
               ELSE invocations
    /\ idx' = idx + 1
    /\ UNCHANGED <<otherVars, streamVars, entry, op, model, use_responses_api, user_input, instructions,
                   max_tool_call_depth, current_tool_call_depth,
                   previous_response_id, tool_outputs, pc, requests, replies,
                   messages, started, result>>

\* A variant of ToolMessages that appends the tool messages newest first
\* (sensitivity of C3).
RECURSIVE ToolMessagesNewestFirst(_, _)
ToolMessagesNewestFirst(responses, tool_call_ids) ==
    IF responses = <<>> THEN <<>>
    ELSE ToolMessagesNewestFirst(Tail(responses), tool_call_ids)
         \o (IF Head(responses).tool_call_id \in tool_call_ids
             THEN <<[role |-> "tool", content |-> Head(responses).output,
                     tool_call_id |-> Head(responses).tool_call_id]>>
             ELSE <<>>)

\* the role "tool" messages handle_chat_completions_api appends: one per
\* tool response whose id is an id of the assistant message's tool_calls
RECURSIVE ToolMessages(_, _)
ToolMessages(responses, tool_call_ids) ==
    IF responses = <<>> THEN <<>>
    ELSE (IF Head(responses).tool_call_id \in tool_call_ids
          THEN <<[role |-> "tool", content |-> Head(responses).output,
                  tool_call_id |-> Head(responses).tool_call_id]>>
          ELSE <<>>)
         \o ToolMessages(Tail(responses), tool_call_ids)

\* The round is over on the Chat Completions or the Responses path: the
\* orchestrator calls itself with the results and current_tool_call_depth + 1.
Recurse ==
    /\ pc = "tools"
    /\ idx > Len(RoundCalls)
    /\ Path \in {"completions", "responses"}
    /\ IF Path = "completions"
       THEN /\ messages' = messages \o
                  ToolMessages(tool_responses,
                               {RoundCalls[i].id : i \in 1..Len(RoundCalls)})
            /\ user_input' = [isstr |-> FALSE, val |-> messages']
            /\ instructions' = None
            /\ UNCHANGED <<previous_response_id, tool_outputs>>
       ELSE /\ previous_response_id' = Last(replies).id
            /\ tool_outputs' = tool_responses
            /\ UNCHANGED <<messages, user_input, instructions>>
    /\ current_tool_call_depth' = current_tool_call_depth + 1
    /\ pc' = "enter"
    /\ UNCHANGED <<otherVars, streamVars, entry, op, model, use_responses_api, max_tool_call_depth,
                   requests, replies, tool_responses, idx, invocations, started, result>>

\* The round is over on the Anthropic path: the follow-up request is sent.
AnthropicFollowUp ==
    /\ pc = "tools"
    /\ idx > Len(RoundCalls)
    /\ Path = "anthropic"
    /\ requests' = Append(requests,
                          AnthropicFollowUpRequest(model, user_input, instructions,
                                                   Last(replies).text, tool_responses))
    /\ pc' = "await_followup"
    /\ UNCHANGED <<otherVars, streamVars, entry, op, model, use_responses_api, user_input, instructions,
                   max_tool_call_depth, current_tool_call_depth,
                   previous_response_id, tool_outputs, replies, messages,
                   tool_responses, idx, invocations, started, result>>

\* The vendor API answers the Anthropic follow-up: it is returned as it is.
AnthropicFollowUpReply ==
    /\ pc = "await_followup"
    /\ \E kinds \in SeqsUpTo(KindsOf(Path), MaxCalls - CountCalls(replies)) :
          /\ replies' = Append(replies, Reply(Path, Len(requests), kinds))
          /\ result' = Return(AnthropicResponse(Last(replies')))
    /\ pc' = "done"
    /\ UNCHANGED <<otherVars, streamVars, entry, op, model, use_responses_api, user_input, instructions,
                   max_tool_call_depth, current_tool_call_depth,
                   previous_response_id, tool_outputs, requests, messages,
                   tool_responses, idx, invocations, started>>

(***************************************************************************)
(* AsyncLLMClient.stream and the three stream_* functions.                 *)
(***************************************************************************)
\* max_tokens of the second, non-streaming call of stream_chat_completions_api
\* and stream_anthropic_api
USAGE_MAX_TOKENS == 1
\* max_output_tokens of the second call of stream_responses_api
RESPONSES_USAGE_MAX_TOKENS == 16
\* the characters-per-token ratio of the output-token estimate
CHARS_PER_TOKEN == 4

\* the events of a provider stream: a first event carrying the response id,
\* one event per text chunk, and the usage either on the last text chunk, on
\* a final event of its own (without choices), or nowhere
StreamEvents(texts, usage_mode) ==
    LET usage == [input_tokens |-> 7, output_tokens |-> 3]
        n == Len(texts)
    IN <<[choices |-> FALSE, id |-> <<"resp_stream">>]>>
       \o [i \in 1..n |->
             IF i = n /\ usage_mode = "last_chunk"
             THEN [choices |-> TRUE, text |-> texts[i], usage |-> usage]
             ELSE [choices |-> TRUE, text |-> texts[i]]]
       \o (IF usage_mode = "final_event" \/ (usage_mode = "last_chunk" /\ n = 0)
           THEN <<[choices |-> FALSE, usage |-> usage]>> ELSE <<>>)

\* the request the stream_* function builds: the orchestrator's first
\* request with stream=True
StreamRequest ==
    CASE Path = "completions" ->
           [CompletionsRequest(model, prepare_messages(user_input, instructions))
              EXCEPT !.stream = TRUE]
      [] Path = "responses" ->
           [ResponsesRequest(model, user_input, instructions, None, <<>>)
              EXCEPT !.stream = TRUE]
      [] OTHER ->
           [AnthropicRequest(model, user_input, instructions) EXCEPT !.stream = TRUE]

\* the second, non-streaming request that recovers the usage counts
UsageRequest ==
    CASE Path = "completions" ->
           [StreamRequest EXCEPT !.stream = FALSE, !.max_tokens = USAGE_MAX_TOKENS]
      [] Path = "responses" ->
           [StreamRequest EXCEPT !.stream = FALSE,
                                 !.max_output_tokens = RESPONSES_USAGE_MAX_TOKENS]
      [] OTHER ->
           [StreamRequest EXCEPT !.stream = FALSE, !.max_tokens = USAGE_MAX_TOKENS]

\* whether the stream_* function of the path reads the text / usage / id of
\* an event
ReadsText(ev) ==
    /\ "text" \in DOMAIN ev
    /\ Path = "anthropic" \/ ev.choices
ReadsUsage(ev) ==
    /\ "usage" \in DOMAIN ev
    /\ Path = "completions" => ev.choices
ReadsId(ev) ==
    /\ "id" \in DOMAIN ev
    /\ Path # "completions"

RECURSIVE ContentLen(_)
ContentLen(msgs) ==
    IF msgs = <<>> THEN 0
    ELSE TextLen(Head(msgs).content) + ContentLen(Tail(msgs))

\* the input-token estimate made when the second call fails
EstimatedInputTokens ==
    CASE Path = "completions" ->
           ContentLen(prepare_messages(user_input, instructions)) \div CHARS_PER_TOKEN
      [] Path = "responses" ->
           (IF user_input.isstr THEN TextLen(user_input.val)
            ELSE ContentLen(user_input.val)) \div CHARS_PER_TOKEN
      [] OTHER -> ContentLen(AnthropicMessages(user_input)) \div CHARS_PER_TOKEN

\* the dict a stream_* function returns
StreamResponse(text, in_tok, out_tok, id) ==
    CASE Path = "completions" ->
           [text |-> text, input_tokens |-> in_tok, output_tokens |-> out_tok,
            response_id |-> None]
      [] Path = "responses" ->
           [text |-> text, input_tokens |-> in_tok, output_tokens |-> out_tok,
            response_id |-> id, sources |-> <<>>]
      [] OTHER ->
           [text |-> text, input_tokens |-> in_tok, output_tokens |-> out_tok,
            response_id |-> id, sources |-> None]

orchVars == <<entry, op, model, use_responses_api, user_input, instructions,
              max_tool_call_depth, current_tool_call_depth, previous_response_id,
              tool_outputs, messages, tool_responses, idx, invocations, started>>

\* the TypeError of calling stream_chat_completions_api without its parameter tool_registry
MISSING_TOOL_REGISTRY ==
    [type |-> "TypeError",
     msg |-> <<"stream_chat_completions_api() missing 1 required positional argument: 'tool_registry'">>]

\* AsyncLLMClient.stream calls stream_chat_completions_api of llm/chat_completions.py without
\* the tool_registry that function requires
StreamCallRejected == entry = "client" /\ Path = "completions"

\* AsyncLLMClient.stream on the Chat Completions path: the call of the stream function raises
\* a TypeError before any request is built; stream() re-raises it wrapped.
StreamCallFails ==
    /\ pc = "enter" /\ op = "stream"
    /\ StreamCallRejected
    /\ result' = Raise(StreamError(model, MISSING_TOOL_REGISTRY))
    /\ pc' = "done"
    /\ UNCHANGED <<otherVars, orchVars, streamVars, requests, replies>>

\* The stream_* function builds its request and calls the vendor API.
StreamSend ==
    /\ pc = "enter" /\ op = "stream"
    /\ ~StreamCallRejected
    /\ requests' = Append(requests, StreamRequest)
    /\ pc' = "await_stream"
    /\ UNCHANGED <<otherVars, orchVars, streamVars, replies, result>>

\* The vendor API returns the stream.
StreamOpens ==
    /\ pc = "await_stream"
    /\ \E texts \in SeqsUpTo(Chunks, MaxChunks),
          usage_mode \in {"none", "last_chunk", "final_event"} :
          stream' = StreamEvents(texts, usage_mode)
    /\ pc' = "streaming"
    /\ UNCHANGED <<otherVars, orchVars, requests, replies, result, full_text, input_tokens,
                   output_tokens, response_id, handled>>

\* One iteration of `async for chunk in stream`: the text of the chunk is added to
\* full_text and handed to stream_handler, whose result is awaited; when that result is
\* no awaitable the await raises and the loop is left.
StreamChunk ==
    /\ pc = "streaming"
    /\ stream # <<>>
    /\ LET ev == Head(stream)
           awaitable == EffectiveHandler(stream_handler) = "coroutine"
       IN /\ IF ReadsText(ev)
             THEN /\ full_text' = Append(full_text, ev.text)
                  /\ handled' = Append(handled, ev.text)
             ELSE UNCHANGED <<full_text, handled>>
          /\ IF ReadsText(ev) /\ ~awaitable
             THEN /\ result' = Raise(Propagate(AWAIT_NONE))
                  /\ pc' = "done"
                  /\ UNCHANGED <<input_tokens, output_tokens, response_id>>
             ELSE /\ IF ReadsUsage(ev)
                     THEN /\ input_tokens' = ev.usage.input_tokens
                          /\ output_tokens' = ev.usage.output_tokens
                     ELSE UNCHANGED <<input_tokens, output_tokens>>
                  /\ response_id' = IF ReadsId(ev) THEN ev.id ELSE response_id
                  /\ UNCHANGED <<pc, result>>
    /\ stream' = Tail(stream)
    /\ UNCHANGED <<otherVars, orchVars, requests, replies>>

\* The stream is over and surfaced the usage: the response is returned.
StreamReturn ==
    /\ pc = "streaming"
    /\ stream = <<>>
    /\ ~(input_tokens = 0 \/ output_tokens = 0)
    /\ result' = Return(StreamResponse(full_text, input_tokens, output_tokens,
                                       response_id))
    /\ pc' = "done"
    /\ UNCHANGED <<otherVars, orchVars, streamVars, requests, replies>>

\* The stream is over without usage: the second, non-streaming call is made.
UsageCall ==
    /\ pc = "streaming"
    /\ stream = <<>>
    /\ input_tokens = 0 \/ output_tokens = 0
    /\ requests' = Append(requests, UsageRequest)
    /\ pc' = "await_usage"
    /\ UNCHANGED <<otherVars, orchVars, streamVars, replies, result>>

\* The second call answers: its input tokens, the estimated output tokens.
UsageReply ==
    /\ pc = "await_usage"
    /\ replies' = Append(replies, Reply(Path, Len(requests), <<>>))
    /\ input_tokens' = Last(replies').input_tokens
    /\ output_tokens' = TextLen(full_text) \div CHARS_PER_TOKEN
    /\ result' = Return(StreamResponse(full_text, input_tokens', output_tokens',
                                       response_id))
    /\ pc' = "done"
    /\ UNCHANGED <<otherVars, orchVars, requests, stream, full_text, response_id, handled>>

\* The second call raises: caught, both counts are estimated.
UsageFails ==
    /\ pc = "await_usage"
    /\ input_tokens' = EstimatedInputTokens
    /\ output_tokens' = TextLen(full_text) \div CHARS_PER_TOKEN
    /\ result' = Return(StreamResponse(full_text, input_tokens', output_tokens',
                                       response_id))
    /\ pc' = "done"
    /\ UNCHANGED <<otherVars, orchVars, requests, replies, stream, full_text, response_id,
                   handled>>

Next ==
    \/ MaxDepthFallback
    \/ SendRequest
    \/ ProviderReply
    \/ ProviderFails
    \/ StartRound
    \/ ReturnResponse
    \/ ToolStart
    \/ ExecuteToolCall
    \/ Recurse
    \/ AnthropicFollowUp
    \/ AnthropicFollowUpReply
    \/ StreamCallFails
    \/ StreamSend
    \/ StreamOpens
    \/ StreamChunk
    \/ StreamReturn
    \/ UsageCall
    \/ UsageReply
    \/ UsageFails

Spec == Init /\ [][Next]_vars

(***************************************************************************)
(* ToolRegistry (src/llm/tooling.py) on its own: register, unregister,     *)
(* clear_cache, get_schemas and execute_tool called in any order, and a    *)
(* caller that modifies a schema it was handed.                            *)
(***************************************************************************)
\* the callables of the model: the two decorated tools of tests/test_tools.py,
\* a callable that only carries a hand-made `tool` attribute, and a plain
\* function that carries none
Funcs == {"example_tool", "example_async_tool", "generic_tool", "plain_function"}

\* the schema attributes llm_tool sets on a callable
Attrs(func) ==
    CASE func \in {"example_tool", "example_async_tool"} ->
           {"tool", "openai_tool", "anthropic_tool"}
      [] func = "generic_tool" -> {"tool"}
      [] OTHER -> {}

\* the names tools are registered under, and the providers schemas are asked for
RegistryNames == {"example_tool", "example_async_tool"}

\* the registrations attempted: each decorated tool under its own name, the
\* callable with the hand-made schema under a name of its own or over
\* example_tool, and the plain function
Registrations ==
    {[name |-> "example_tool", func |-> "example_tool"],
     [name |-> "example_async_tool", func |-> "example_async_tool"],
     [name |-> "example_tool", func |-> "generic_tool"],
     [name |-> "example_tool", func |-> "plain_function"]}
Providers == {"openai", "anthropic"}

\* the mutable objects reachable from a schema attribute of a callable:
\* openai_tool and tool both hold the one `parameters` dict, anthropic_tool
\* holds deep copies of its properties and its required list
ObjectsOf(attr) ==
    CASE attr = "openai_tool" ->
           {"openai_tool", "openai_tool.function", "parameters",
            "parameters.properties", "parameters.required"}
      [] attr = "anthropic_tool" ->
           {"anthropic_tool", "anthropic_tool.input_schema",
            "input_schema.properties", "input_schema.required"}
      [] OTHER ->
           {"tool", "tool.function", "parameters",
            "parameters.properties", "parameters.required"}

\* a schema in a list is a reference to the attribute of the callable
PartsOf(schema) == {[func |-> schema.func, obj |-> o] : o \in ObjectsOf(schema.attr)}

RegNames(tools) == {tools[i].name : i \in 1..Len(tools)}

\* self._tools[name] = func
DictPut(tools, name, func) ==
    IF name \in RegNames(tools)
    THEN [i \in 1..Len(tools) |->
            IF tools[i].name = name THEN [name |-> name, func |-> func] ELSE tools[i]]
    ELSE Append(tools, [name |-> name, func |-> func])

\* del self._tools[name]
DictDel(tools, name) ==
    LET Keep(e) == e.name # name IN SelectSeq(tools, Keep)

\* A variant of Invalidated that leaves the flags as they are (sensitivity
\* of C13).
NotInvalidated(valid) == valid

\* `for provider in self._cache_valid: self._cache_valid[provider] = False`
Invalidated(valid) == [p \in DOMAIN valid |-> FALSE]

\* self._cache_valid.get(provider, False)
IsValid(valid, provider) == provider \in DOMAIN valid /\ valid[provider]

\* ToolRegistry._build_schema_cache
build_schema_cache(tools, provider) ==
    [i \in 1..Len(tools) |->
       LET func == tools[i].func
       IN IF provider = "openai" /\ "openai_tool" \in Attrs(func)
          THEN [func |-> func, attr |-> "openai_tool"]
          ELSE IF provider = "anthropic" /\ "anthropic_tool" \in Attrs(func)
          THEN [func |-> func, attr |-> "anthropic_tool"]
          ELSE [func |-> func, attr |-> "tool"]]

clientVars == <<orchVars, streamVars, handlerVars, pc, requests, replies, result>>

\* a client nobody calls
ClientIdle ==
    /\ entry = "client" /\ op = "response" /\ model = GPT
    /\ use_responses_api = FALSE
    /\ user_input = [isstr |-> TRUE, val |-> USER_INPUT]
    /\ instructions = None
    /\ max_tool_call_depth = 0 /\ current_tool_call_depth = 0
    /\ previous_response_id = None /\ tool_outputs = <<>>
    /\ pc = "idle"
    /\ requests = <<>> /\ replies = <<>> /\ messages = <<>>
    /\ tool_responses = <<>> /\ idx = 0 /\ invocations = <<>> /\ started = <<>>
    /\ result = NoResult
    /\ stream = <<>> /\ full_text = <<>> /\ input_tokens = 0
    /\ output_tokens = 0 /\ response_id = None /\ handled = <<>>
    /\ stream_handler = "coroutine"

\* ToolRegistry.__init__
RegistryInit ==
    /\ ClientIdle
    /\ AdapterIdle
    /\ reg_tools = <<>>
    /\ schema_cache = <<>>
    /\ cache_valid = <<>>
    /\ reg_last = [op |-> "none"]
    /\ task = NoTask
    /\ llm_client = NoClient

\* A variant of Register that stores the callable before it looks for its
\* schema (sensitivity of C14).
RegisterThenCheck(name, func) ==
    /\ reg_tools' = DictPut(reg_tools, name, func)
    /\ cache_valid' = Invalidated(cache_valid)
    /\ reg_last' = [op |-> "register", name |-> name, func |-> func,
                    raised |-> IF "tool" \notin Attrs(func) THEN "ValueError"
                               ELSE NoneAtom]
    /\ UNCHANGED <<clientVars, adapterVars, threadVars, endpointVars, route, built, cite, schema_cache>>

\* ToolRegistry.register(name, func)
Register(name, func) ==
    /\ IF "tool" \notin Attrs(func)
       THEN /\ reg_last' = [op |-> "register", name |-> name, func |-> func,
                            raised |-> "ValueError"]
            /\ UNCHANGED <<reg_tools, schema_cache, cache_valid>>
       ELSE /\ reg_tools' = DictPut(reg_tools, name, func)
            /\ cache_valid' = Invalidated(cache_valid)
            /\ reg_last' = [op |-> "register", name |-> name, func |-> func,
                            raised |-> NoneAtom]
            /\ UNCHANGED schema_cache
    /\ UNCHANGED <<clientVars, adapterVars, threadVars, endpointVars, route, built, cite>>

\* A variant of Unregister that invalidates the caches whether or not the
\* name was registered (sensitivity of C15).
UnregisterAlwaysInvalidates(name) ==
    /\ reg_tools' = DictDel(reg_tools, name)
    /\ cache_valid' = Invalidated(cache_valid)
    /\ reg_last' = [op |-> "unregister", name |-> name, raised |-> NoneAtom]
    /\ UNCHANGED <<clientVars, adapterVars, threadVars, endpointVars, route, built, cite, schema_cache>>

\* ToolRegistry.unregister(name)
Unregister(name) ==
    /\ IF name \in RegNames(reg_tools)
       THEN /\ reg_tools' = DictDel(reg_tools, name)
            /\ cache_valid' = Invalidated(cache_valid)
       ELSE UNCHANGED <<reg_tools, cache_valid>>
    /\ reg_last' = [op |-> "unregister", name |-> name, raised |-> NoneAtom]
    /\ UNCHANGED <<clientVars, adapterVars, threadVars, endpointVars, route, built, cite, schema_cache>>

\* ToolRegistry.clear_cache(provider), provider = None clearing every cache
ClearCache(provider) ==
    /\ IF provider # NoneAtom
       THEN IF provider \in DOMAIN schema_cache
            THEN /\ schema_cache' = [schema_cache EXCEPT ![provider] = <<>>]
                 /\ cache_valid' = (provider :> FALSE) @@ cache_valid
            ELSE UNCHANGED <<schema_cache, cache_valid>>
       ELSE /\ schema_cache' = <<>>
            /\ cache_valid' = <<>>
    /\ reg_last' = [op |-> "clear_cache", provider |-> provider, raised |-> NoneAtom]
    /\ UNCHANGED <<clientVars, adapterVars, threadVars, endpointVars, route, built, cite, reg_tools>>

\* ToolRegistry.get_schemas(provider)
GetSchemas(provider) ==
    LET known == provider \in DOMAIN schema_cache
        cache1 == IF known THEN schema_cache ELSE (provider :> <<>>) @@ schema_cache
        valid1 == IF known THEN cache_valid ELSE (provider :> FALSE) @@ cache_valid
        rebuild == ~IsValid(valid1, provider)
    IN /\ schema_cache' =
            IF rebuild
            THEN [cache1 EXCEPT ![provider] = build_schema_cache(reg_tools, provider)]
            ELSE cache1
       /\ cache_valid' = IF rebuild THEN (provider :> TRUE) @@ valid1 ELSE valid1
       /\ reg_last' = [op |-> "get_schemas", provider |-> provider,
                       raised |-> NoneAtom, value |-> schema_cache'[provider]]
       /\ UNCHANGED <<clientVars, adapterVars, threadVars, endpointVars, route, built, cite, reg_tools>>

\* The caller of get_schemas modifies, in place, one object of one schema of
\* the list it was just handed.
MutateSchema ==
    /\ reg_last.op = "get_schemas"
    /\ \E i \in 1..Len(reg_last.value) :
          \E part \in PartsOf(reg_last.value[i]) :
             reg_last' = [op |-> "mutate", via |-> reg_last.provider,
                          func |-> part.func, obj |-> part.obj]
    /\ UNCHANGED <<clientVars, adapterVars, threadVars, endpointVars, route, built, cite, reg_tools, schema_cache, cache_valid>>

\* the argument dicts execute_tool is called with
ToolArgs == {<<>>, [param1 |-> "hello"], [param1 |-> "hello", param2 |-> 100]}

\* func(**args) for the callables of the model: example_tool and
\* example_async_tool take (param1, param2=42), the async one handing back a
\* coroutine; a missing param1 is a TypeError raised at the call
CallTool(func, args) ==
    LET value == [param1 |-> args.param1,
                  param2 |-> IF "param2" \in DOMAIN args THEN args.param2 ELSE 42]
    IN IF func = "generic_tool"
       THEN [raised |-> NoneAtom, value |-> [status |-> "done"]]
       ELSE IF "param1" \notin DOMAIN args
       THEN [raised |-> "TypeError"]
       ELSE IF func = "example_async_tool"
       THEN [raised |-> NoneAtom,
             value |-> [coroutine |-> TRUE, final |-> [async |-> TRUE] @@ value]]
       ELSE [raised |-> NoneAtom, value |-> value]

\* A variant of AwaitIfCoroutine that hands the callable's return value back
\* as it is (sensitivity of C17).
ReturnUnawaited(returned) == returned

\* `if inspect.iscoroutine(result): result = await result`
AwaitIfCoroutine(returned) ==
    IF "coroutine" \in DOMAIN returned THEN returned.final ELSE returned

\* self._tools[name]
Lookup(tools, name) ==
    (CHOOSE i \in 1..Len(tools) : tools[i].name = name)

\* ToolRegistry.execute_tool(name, args)
ExecuteTool(name, args) ==
    /\ IF name \notin RegNames(reg_tools)
       THEN reg_last' = [op |-> "execute_tool", name |-> name, args |-> args,
                         raised |-> "KeyError", invoked |-> <<>>]
       ELSE LET func == reg_tools[Lookup(reg_tools, name)].func
                called == CallTool(func, args)
            IN IF called.raised # NoneAtom
               THEN reg_last' = [op |-> "execute_tool", name |-> name, args |-> args,
                                 raised |-> called.raised,
                                 invoked |-> <<[func |-> func, kwargs |-> args]>>]
               ELSE reg_last' = [op |-> "execute_tool", name |-> name, args |-> args,
                                 raised |-> NoneAtom,
                                 invoked |-> <<[func |-> func, kwargs |-> args]>>,
                                 value |-> AwaitIfCoroutine(called.value)]
    /\ UNCHANGED <<clientVars, adapterVars, threadVars, endpointVars, route, built, cite, reg_tools, schema_cache, cache_valid>>

RegistryNext ==
    \/ \E r \in Registrations : Register(r.name, r.func)
    \/ \E name \in RegistryNames : Unregister(name)
    \/ \E provider \in Providers \cup {NoneAtom} : ClearCache(provider)
    \/ \E provider \in Providers : GetSchemas(provider)
    \/ MutateSchema
    \/ \E name \in RegistryNames \cup {"non_existent_tool"}, args \in ToolArgs :
          ExecuteTool(name, args)

RegistrySpec == RegistryInit /\ [][RegistryNext]_vars

(***************************************************************************)
(* One ToolRegistry shared by two threads: one thread is inside            *)
(* get_schemas, statement by statement, while the other calls register,    *)
(* unregister and clear_cache. The registry takes no lock.                 *)
(***************************************************************************)
\* get_schemas up to its validity test: the cache of an unknown provider is set up; a valid
\* cache is returned at once, an invalid one is about to be rebuilt
GetSchemasEnter(provider) ==
    /\ task = NoTask
    /\ LET known == provider \in DOMAIN schema_cache
           cache1 == IF known THEN schema_cache ELSE (provider :> <<>>) @@ schema_cache
           valid1 == IF known THEN cache_valid ELSE (provider :> FALSE) @@ cache_valid
       IN /\ schema_cache' = cache1
          /\ cache_valid' = valid1
          /\ IF IsValid(valid1, provider)
             THEN /\ reg_last' = [op |-> "get_schemas", provider |-> provider,
                                  raised |-> NoneAtom, value |-> cache1[provider]]
                  /\ task' = NoTask
             ELSE /\ task' = [pc |-> "build", provider |-> provider]
                  /\ UNCHANGED reg_last
    /\ UNCHANGED <<clientVars, adapterVars, endpointVars, route, built, cite, reg_tools>>

\* `self._build_schema_cache(provider)`: the list is built from the tools registered now
\* and stored under the provider
GetSchemasBuild ==
    /\ task.pc = "build"
    /\ schema_cache' = (task.provider :> build_schema_cache(reg_tools, task.provider))
                           @@ schema_cache
    /\ task' = [task EXCEPT !.pc = "mark"]
    /\ UNCHANGED <<clientVars, adapterVars, endpointVars, route, built, cite, reg_tools, cache_valid, reg_last>>

\* `self._cache_valid[provider] = True` and `return self._schema_cache[provider]`, the
\* latter a KeyError when the other thread has replaced the cache dict meanwhile
GetSchemasMarkValid ==
    /\ task.pc = "mark"
    /\ cache_valid' = (task.provider :> TRUE) @@ cache_valid
    /\ reg_last' = IF task.provider \in DOMAIN schema_cache
                   THEN [op |-> "get_schemas", provider |-> task.provider,
                         raised |-> NoneAtom, value |-> schema_cache[task.provider]]
                   ELSE [op |-> "get_schemas", provider |-> task.provider,
                         raised |-> "KeyError"]
    /\ task' = NoTask
    /\ UNCHANGED <<clientVars, adapterVars, endpointVars, route, built, cite, reg_tools, schema_cache>>

ThreadedNext ==
    \/ \E provider \in Providers : GetSchemasEnter(provider)
    \/ GetSchemasBuild
    \/ GetSchemasMarkValid
    \/ \E r \in Registrations : Register(r.name, r.func)
    \/ \E name \in RegistryNames : Unregister(name)
    \/ \E provider \in Providers \cup {NoneAtom} : ClearCache(provider)

ThreadedSpec == RegistryInit /\ [][ThreadedNext]_vars

(***************************************************************************)
(* The tool-format adapter: prepare_tools_for_api of llm/tool_handling.py. *)
(* A tool definition is a dict, modelled as a record with exactly the keys *)
(* the dict holds; a JSON schema is a record type/properties/required.     *)
(***************************************************************************)

\* the largest tools list a caller passes
MaxTools == 2

\* dict.get(key, default)
Get(dict, key, default) == IF key \in DOMAIN dict THEN dict[key] ELSE default

\* the generic schema of a logical tool: its own name, description and parameter schema
LogicalTool(name, description, property) ==
    [name |-> name,
     description |-> description,
     parameters |-> [type |-> "object",
                     properties |-> [p \in {property} |-> [type |-> "string"]],
                     required |-> <<property>>]]

\* a logical tool whose hand-written parameter schema has no "type" key
UntypedTool ==
    [name |-> "search",
     description |-> "Search for information",
     parameters |-> [properties |-> [query |-> [type |-> "string"]], required |-> <<"query">>]]

\* the logical tools callers define: two with the names the adapter treats specially, two with other names
LogicalTools ==
    { LogicalTool("get_weather", "Get weather information", "location"),
      LogicalTool("search_database", "Query the orders table", "sql"),
      LogicalTool("get_news", "Get news articles", "topic"),
      UntypedTool }

\* OpenAI nested-function shape
NestedShape(t) ==
    [type |-> "function",
     function |-> [name |-> t.name, description |-> t.description, parameters |-> t.parameters]]

\* Anthropic input_schema shape
InputSchemaShape(t) ==
    [name |-> t.name, description |-> t.description, input_schema |-> t.parameters]

\* minimal name+parameters shape
MinimalShape(t) ==
    [name |-> t.name, description |-> t.description, parameters |-> t.parameters]

\* the schema llm_tool attaches to a decorated function as openai_tool
OpenAIToolShape(t) ==
    [type |-> "function",
     name |-> t.name,
     function |-> [description |-> t.description, parameters |-> t.parameters]]

\* provider built-in tool entries
BuiltInTools ==
    { [type |-> "web_search_preview"],
      [type |-> "file_search", vector_store_ids |-> <<"vs_1">>] }

\* an entry with none of the keys type, function, name
InvalidTool == [description |-> "no name"]

\* the entries a caller puts in a tools list
ToolEntries ==
    UNION { {NestedShape(t), InputSchemaShape(t), MinimalShape(t), OpenAIToolShape(t)} : t \in LogicalTools }
        \cup BuiltInTools \cup {InvalidTool}

ApiTypes == {"responses", "completions", "anthropic"}

\* a variant of the malformed-entry test that skips nothing
NeverInvalid(tool) == FALSE

\* `not any(k in tool for k in ['type', 'function', 'name'])`
IsInvalidTool(tool) == DOMAIN tool \cap {"type", "function", "name"} = {}

\* the dict built from a nested "function" dict for the Responses API
HoistFunction(function_data) ==
    [type |-> "function",
     name |-> Get(function_data, "name", NoneAtom),
     description |-> Get(function_data, "description", ""),
     parameters |-> Get(function_data, "parameters", <<>>)]

\* the entries one input tool adds to formatted_tools, api_type 'responses'
responses_entry(tool) ==
    IF IsInvalidTool(tool) THEN <<>>
    ELSE IF Get(tool, "type", NoneAtom) = "function"
    THEN IF {"name", "parameters"} \subseteq DOMAIN tool THEN <<tool>>
         ELSE IF "function" \in DOMAIN tool THEN <<HoistFunction(tool.function)>>
         ELSE <<>>
    ELSE IF "function" \in DOMAIN tool THEN <<HoistFunction(tool.function)>>
    ELSE IF {"name", "input_schema"} \subseteq DOMAIN tool
    THEN <<[type |-> "function",
            name |-> tool.name,
            description |-> Get(tool, "description", ""),
            parameters |-> tool.input_schema]>>
    ELSE <<tool>>

\* the nested "function" dict after `tool_copy['function']['name'] = tool_copy['name']`:
\* tool.copy() is shallow, so this is the nested dict of the caller's tool too
NamedFunction(tool) ==
    IF "name" \notin DOMAIN tool.function /\ "name" \in DOMAIN tool
    THEN [name |-> tool.name] @@ tool.function
    ELSE tool.function

\* the dict built for the Chat Completions API from a name and a schema
NestFunction(tool, schema) ==
    [type |-> "function",
     function |-> [name |-> tool.name,
                   description |-> Get(tool, "description", ""),
                   parameters |-> schema]]

\* a variant that passes an entry of no function shape through, as 'responses' does
completions_entry_passing(tool) ==
    IF IsInvalidTool(tool) THEN <<>>
    ELSE IF "function" \in DOMAIN tool
    THEN <<[type |-> "function"] @@ [tool EXCEPT !.function = NamedFunction(tool)]>>
    ELSE IF {"name", "parameters"} \subseteq DOMAIN tool THEN <<NestFunction(tool, tool.parameters)>>
    ELSE IF {"name", "input_schema"} \subseteq DOMAIN tool THEN <<NestFunction(tool, tool.input_schema)>>
    ELSE <<tool>>

\* the entries one input tool adds to formatted_tools, api_type 'completions'
completions_entry(tool) ==
    IF IsInvalidTool(tool) THEN <<>>
    ELSE IF "function" \in DOMAIN tool
    THEN LET tool_copy == [tool EXCEPT !.function = NamedFunction(tool)]
         IN  <<IF "type" \notin DOMAIN tool_copy THEN [type |-> "function"] @@ tool_copy ELSE tool_copy>>
    ELSE IF {"name", "parameters"} \subseteq DOMAIN tool THEN <<NestFunction(tool, tool.parameters)>>
    ELSE IF {"name", "input_schema"} \subseteq DOMAIN tool THEN <<NestFunction(tool, tool.input_schema)>>
    ELSE <<>>

\* the caller's tool after the call, api_type 'completions': its nested dict got the name
completions_input_after(tool) ==
    IF ~IsInvalidTool(tool) /\ "function" \in DOMAIN tool
    THEN [tool EXCEPT !.function = NamedFunction(tool)]
    ELSE tool

\* the hard-coded schema for the tool name search_database
SEARCH_DATABASE_TOOL ==
    [name |-> "search_database",
     description |-> "Search a database for information",
     input_schema |-> [type |-> "object",
                       properties |-> [query |-> [type |-> "string", description |-> "The search query"],
                                       limit |-> [type |-> "integer", description |-> "Maximum number of results"]],
                       required |-> <<"query">>]]

\* the hard-coded schema for the tool name get_weather
GET_WEATHER_TOOL ==
    [name |-> "get_weather",
     description |-> "Get the current weather for a location",
     input_schema |-> [type |-> "object",
                       properties |-> [location |-> [type |-> "string", description |-> "City or region name"],
                                       unit |-> [type |-> "string",
                                                 description |-> "Temperature unit (celsius or fahrenheit)"]],
                       required |-> <<"location">>]]

\* the entries one input tool adds to valid_tools, api_type 'anthropic'
valid_tools_entry(tool) ==
    IF IsInvalidTool(tool) THEN <<>>
    ELSE IF "name" \in DOMAIN tool /\ tool.name = "search_database" THEN <<SEARCH_DATABASE_TOOL>>
    ELSE IF "name" \in DOMAIN tool /\ tool.name = "get_weather" THEN <<GET_WEATHER_TOOL>>
    ELSE <<tool>>

\* the dict _format_tools_for_anthropic builds from a nested dict holding the schema under `key`
FromNested(data, key) ==
    [name |-> Get(data, "name", NoneAtom),
     description |-> Get(data, "description", ""),
     input_schema |-> Get(data, key, <<>>)]

\* the entries one tool adds to the list _format_tools_for_anthropic returns
format_tool_for_anthropic(tool) ==
    IF {"name", "input_schema"} \subseteq DOMAIN tool THEN <<tool>>
    ELSE IF Get(tool, "type", NoneAtom) = "function" /\ "function" \in DOMAIN tool
    THEN <<FromNested(tool.function, "parameters")>>
    ELSE IF Get(tool, "type", NoneAtom) = "custom" /\ "custom" \in DOMAIN tool
    THEN <<FromNested(tool.custom, "input_schema")>>
    ELSE IF {"name", "parameters"} \subseteq DOMAIN tool
    THEN <<[name |-> tool.name,
            description |-> Get(tool, "description", ""),
            input_schema |-> tool.parameters]>>
    ELSE <<>>

\* `if 'input_schema' in tool and 'type' not in tool['input_schema']: tool['input_schema']['type'] = 'object'`
EnsureObjectType(tool) ==
    IF "input_schema" \in DOMAIN tool /\ "type" \notin DOMAIN tool.input_schema
    THEN [tool EXCEPT !.input_schema = [type |-> "object"] @@ tool.input_schema]
    ELSE tool

\* the entries one input tool adds to the result, api_type 'anthropic'
anthropic_entry(tool) ==
    LET valid == valid_tools_entry(tool)
        formatted == IF valid = <<>> THEN <<>> ELSE format_tool_for_anthropic(valid[1])
    IN  IF formatted = <<>> THEN <<>> ELSE <<EnsureObjectType(formatted[1])>>

\* the loop over tools_list: the entries of every tool, in order
RECURSIVE FormattedTools(_, _)
FormattedTools(tools, type) ==
    IF tools = <<>> THEN <<>>
    ELSE LET entry_of == IF type = "responses" THEN responses_entry(Head(tools))
                         ELSE IF type = "completions" THEN completions_entry(Head(tools))
                         ELSE anthropic_entry(Head(tools))
         IN  entry_of \o FormattedTools(Tail(tools), type)

\* prepare_tools_for_api: None for an empty input, an empty result or an unknown api_type
prepare_tools_for_api(tools, type) ==
    IF tools = <<>> \/ type \notin ApiTypes THEN [is_none |-> TRUE]
    ELSE LET formatted_tools == FormattedTools(tools, type)
         IN  IF formatted_tools = <<>> THEN [is_none |-> TRUE]
             ELSE [is_none |-> FALSE, tools |-> formatted_tools]

\* the schema dict of the caller after `tool['input_schema']['type'] = 'object'` on a dict that shares it
TypedSchema(schema) == IF "type" \in DOMAIN schema THEN schema ELSE [type |-> "object"] @@ schema

\* the caller's tool after the call, api_type 'anthropic': the formatted entry holds the caller's
\* own schema dict (the entry is the tool itself, or its input_schema is tool['parameters'] or
\* tool['function']['parameters']), so the injected "type" shows in the caller's tool
anthropic_input_after(tool) ==
    IF valid_tools_entry(tool) # <<tool>> THEN tool
    ELSE IF {"name", "input_schema"} \subseteq DOMAIN tool
    THEN [tool EXCEPT !.input_schema = TypedSchema(tool.input_schema)]
    ELSE IF Get(tool, "type", NoneAtom) = "function" /\ "function" \in DOMAIN tool
    THEN IF "parameters" \in DOMAIN tool.function
         THEN [tool EXCEPT !.function.parameters = TypedSchema(tool.function.parameters)]
         ELSE tool
    ELSE IF {"name", "parameters"} \subseteq DOMAIN tool
    THEN [tool EXCEPT !.parameters = TypedSchema(tool.parameters)]
    ELSE tool

\* the caller's list after the call: 'completions' writes the name into nested dicts it shares,
\* 'anthropic' writes the "type" into schema dicts it shares
tools_list_after(tools, type) ==
    IF type = "completions" THEN [i \in 1..Len(tools) |-> completions_input_after(tools[i])]
    ELSE IF type = "anthropic" THEN [i \in 1..Len(tools) |-> anthropic_input_after(tools[i])]
    ELSE tools

\* a caller holds a list of tool definitions and an api_type
AdapterInit ==
    /\ ClientIdle
    /\ RegistryIdle
    /\ route = [called |-> FALSE, model |-> GPT, api_key |-> API_KEY]
    /\ built = [called |-> FALSE]
    /\ cite = [done |-> FALSE]
    /\ tools_list \in UNION { [1..n -> ToolEntries] : n \in 0..MaxTools }
    /\ api_type \in ApiTypes
    /\ prepared = [called |-> FALSE]

\* the caller calls prepare_tools_for_api(tools_list, api_type)
PrepareTools ==
    /\ ~prepared.called
    /\ prepared' = [called |-> TRUE,
                    given |-> tools_list,
                    value |-> prepare_tools_for_api(tools_list, api_type)]
    /\ tools_list' = tools_list_after(tools_list, api_type)
    /\ UNCHANGED <<clientVars, registryVars, threadVars, endpointVars, api_type, route, built, cite>>

\* a later request of the same caller: the list handed to prepare_tools_for_api is the same
\* list object as before (the registry's cached schemas), so it is the list as the first call
\* left it
PrepareToolsAgain ==
    /\ prepared.called
    /\ "again" \notin DOMAIN prepared
    /\ \E type \in ApiTypes :
          /\ prepared' = [again |-> [type |-> type,
                                     value |-> prepare_tools_for_api(tools_list, type)]] @@ prepared
          /\ tools_list' = tools_list_after(tools_list, type)
    /\ UNCHANGED <<clientVars, registryVars, threadVars, endpointVars, api_type, route, built, cite>>

AdapterNext ==
    \/ PrepareTools
    \/ PrepareToolsAgain

AdapterSpec == AdapterInit /\ [][AdapterNext]_vars


(***************************************************************************)
(* Provider routing: AsyncLLMClient._detect_provider and the dispatch of   *)
(* response() on its result (llm/client.py).                               *)
(***************************************************************************)

\* the first atoms of model identifiers: every family prefix and some that are none
FirstAtoms ==
    CLAUDE_PREFIXES \cup OPENAI_PREFIXES \cup LOCAL_PREFIXES \cup {"invalid-model", "my-", "GPT"}

\* what follows the first atom
RestAtoms == {"-4o-mini", "claude"}

\* model identifiers: the empty string, a first atom alone, a first atom and a rest
ModelIds == {<<>>} \cup { <<f>> : f \in FirstAtoms } \cup { <<f, r>> : f \in FirstAtoms, r \in RestAtoms }

\* self.api_key: the key given or found in the environment, "ollama" for a local server, or None
ApiKeys == {API_KEY, "ollama", NoneAtom}

\* the handler response() dispatches to for a provider, ValueError for any other value
Dispatch(provider, responses) ==
    IF provider = "anthropic" THEN "handle_anthropic_api"
    ELSE IF provider \in {"openai", "ollama"}
    THEN IF responses THEN "handle_responses_api" ELSE "handle_chat_completions_api"
    ELSE "ValueError"

\* a client with some api_key is asked for a response from some model
RouterInit ==
    /\ ClientIdle
    /\ RegistryIdle
    /\ tools_list = <<>> /\ api_type = "responses" /\ prepared = [called |-> FALSE]
    /\ built = [called |-> FALSE]
    /\ cite = [done |-> FALSE]
    /\ route \in [called : {FALSE}, model : ModelIds, api_key : ApiKeys, use_responses_api : BOOLEAN]

\* response(): provider = self._detect_provider(model), then the dispatch on it
DetectProvider ==
    /\ ~route.called
    /\ LET provider == detect_provider_for(route.model, route.api_key)
       IN  route' = [called |-> TRUE, model |-> route.model, api_key |-> route.api_key,
                     use_responses_api |-> route.use_responses_api,
                     provider |-> provider,
                     handler |-> Dispatch(provider, route.use_responses_api)]
    /\ UNCHANGED <<clientVars, registryVars, adapterVars, threadVars, endpointVars, built, cite>>

RouterNext == DetectProvider

RouterSpec == RouterInit /\ [][RouterNext]_vars

(***************************************************************************)
(* One AsyncLLMClient over several calls of response() and stream(): which *)
(* vendor client, configured how, serves each call (llm/client.py).        *)
(***************************************************************************)

\* the largest number of calls made on one client
MaxRequests == 3

\* the base_url a client is constructed with: None (the vendor's own endpoint) or a proxy
BaseUrls == {NoneAtom, "https://proxy.example/v1"}

\* the endpoint of a local Ollama server, the default of the ollama branch
OLLAMA_BASE_URL == "http://localhost:11434/v1"

LLAMA == <<"llama", "3.2">>

\* the models asked for: one of each provider
EndpointModels == {GPT, CLAUDE, LLAMA}

\* AsyncLLMClient.__init__: self.openai_client = AsyncOpenAI(base_url=base_url, api_key=api_key),
\* self.anthropic_client = AsyncAnthropic(api_key=api_key), self.api_key = api_key
Construct(base_url, api_key) ==
    [constructed |-> TRUE,
     base_url |-> base_url,
     api_key |-> api_key,
     openai_client |-> [vendor |-> "openai", base_url |-> base_url, api_key |-> api_key],
     anthropic_client |-> [vendor |-> "anthropic", base_url |-> NoneAtom, api_key |-> api_key],
     using_ollama |-> FALSE,
     served |-> <<>>]

EndpointInit ==
    /\ ClientIdle
    /\ reg_tools = <<[name |-> "get_weather", func |-> "get_weather"]>>
    /\ schema_cache = <<>> /\ cache_valid = <<>> /\ reg_last = [op |-> "none"]
    /\ tools_list = <<>> /\ api_type = "responses" /\ prepared = [called |-> FALSE]
    /\ route = [called |-> FALSE, model |-> GPT, api_key |-> API_KEY]
    /\ built = [called |-> FALSE]
    /\ cite = [done |-> FALSE]
    /\ task = NoTask
    /\ \E base_url \in BaseUrls, api_key \in ApiKeys :
          llm_client = Construct(base_url, api_key)

\* self.openai_client after the ollama branch of response() and stream():
\* `if not hasattr(self, '_using_ollama') or not self._using_ollama:` it is replaced
OllamaBranch(c, provider) ==
    IF provider = "ollama" /\ ~c.using_ollama
    THEN [c EXCEPT !.openai_client = [vendor |-> "openai", base_url |-> OLLAMA_BASE_URL,
                                      api_key |-> "ollama"],
                   !.using_ollama = TRUE]
    ELSE c

\* response() or stream() up to the call of the handler: the provider is detected, the
\* ollama branch runs, and the handler is given self.anthropic_client or self.openai_client
ClientCall(method, m, responses) ==
    /\ llm_client.constructed
    /\ Len(llm_client.served) < MaxRequests
    /\ LET provider == detect_provider_for(m, llm_client.api_key)
           c == OllamaBranch(llm_client, provider)
       IN  llm_client' =
             [c EXCEPT !.served =
                Append(@, [method |-> method, model |-> m, provider |-> provider,
                           use_responses_api |-> responses,
                           client |-> IF provider = "anthropic" THEN c.anthropic_client
                                      ELSE c.openai_client])]
    /\ UNCHANGED <<clientVars, registryVars, adapterVars, threadVars, route, built, cite>>

EndpointNext ==
    \E method \in {"response", "stream"}, m \in EndpointModels, responses \in BOOLEAN :
        ClientCall(method, m, responses)

EndpointSpec == EndpointInit /\ [][EndpointNext]_vars


(***************************************************************************)
(* The request each provider family builds from a conversation passed as   *)
(* user_input (prepare_messages, handle_anthropic_api, handle_responses_api)*)
(***************************************************************************)

\* the longest conversation passed
MaxMessages == 3

\* the entries of a conversation
ConversationEntries ==
    { [role |-> "system", content |-> SYSTEM_MESSAGE],
      [role |-> "system", content |-> <<"Answer in French.">>],
      [role |-> "developer", content |-> <<"Use metric units.">>],
      [role |-> "user", content |-> USER_INPUT],
      [role |-> "assistant", content |-> <<"Hi there!">>] }

\* the provider families
Families == {"completions", "responses", "anthropic"}

\* the request the family's orchestrator builds on entry
FamilyRequest(family, input, instr) ==
    CASE family = "completions" -> CompletionsRequest(GPT, prepare_messages(input, instr))
      [] family = "responses" -> ResponsesRequest(GPT, input, instr, None, <<>>)
      [] OTHER -> AnthropicRequest(CLAUDE, input, instr)

\* a caller holds a conversation and maybe instructions
PromptInit ==
    /\ ClientIdle
    /\ RegistryIdle
    /\ tools_list = <<>> /\ api_type = "responses" /\ prepared = [called |-> FALSE]
    /\ route = [called |-> FALSE, model |-> GPT, api_key |-> API_KEY]
    /\ cite = [done |-> FALSE]
    /\ built \in [called : {FALSE},
                  family : Families,
                  instructions : {None, INSTRUCTIONS},
                  input : { [isstr |-> FALSE, val |-> conv] :
                              conv \in UNION { [1..n -> ConversationEntries] : n \in 1..MaxMessages } }]

\* the orchestrator of the family builds its request
BuildRequest ==
    /\ ~built.called
    /\ built' = [called |-> TRUE, family |-> built.family, instructions |-> built.instructions,
                 input |-> built.input,
                 request |-> FamilyRequest(built.family, built.input, built.instructions)]
    /\ UNCHANGED <<clientVars, registryVars, adapterVars, threadVars, endpointVars, route, cite>>

\* what a tool-call round of handle_chat_completions_api appends to `messages`: the assistant
\* message with the tool_calls of the reply, then one role "tool" message per call
RoundMessages ==
    LET reply == Reply("completions", 1,
                       <<[name |-> "get_weather", arguments |-> ARGS_PARIS, type |-> "native"]>>)
        call == reply.tool_calls[1]
    IN  <<[role |-> "assistant", content |-> reply.text, tool_calls |-> reply.tool_calls]>>
        \o ToolMessages(<<[tool_call_id |-> call.id,
                           output |-> CompletionsToolResult(call).output]>>, {call.id})

\* handle_chat_completions_api calls itself after the round with user_input=messages and
\* instructions=None: the follow-up request is built by prepare_messages from that list
BuildFollowUp ==
    /\ built.called
    /\ built.family = "completions"
    /\ "followup" \notin DOMAIN built
    /\ built' = [followup |->
                    CompletionsRequest(GPT,
                        prepare_messages([isstr |-> FALSE,
                                          val |-> built.request.messages \o RoundMessages],
                                         None))] @@ built
    /\ UNCHANGED <<clientVars, registryVars, adapterVars, threadVars, endpointVars, route, cite>>

PromptNext ==
    \/ BuildRequest
    \/ BuildFollowUp

PromptSpec == PromptInit /\ [][PromptNext]_vars


(***************************************************************************)
(* File citations of the Responses API: extract_cited_files and the        *)
(* sources of handle_responses_api and stream_responses_api.               *)
(***************************************************************************)

\* the most items a provider output holds, and the most annotations of a content item
MaxItems == 2
MaxAnnotations == 2

\* the annotations a provider attaches to output text
Annotations ==
    { [type |-> "file_citation", file_id |-> "file_a", filename |-> "a.pdf", index |-> 0],
      [type |-> "file_citation", file_id |-> "file_b", filename |-> "b.pdf", index |-> 5],
      [type |-> "url_citation", url |-> "https://example.com"] }

\* the items of a provider output: a function call (no content), or a message with one
\* content item carrying annotations
OutputItems ==
    { [type |-> "function_call"] }
        \cup { [type |-> "message", content |-> <<[annotations |-> anns]>>] :
                  anns \in UNION { [1..n -> Annotations] : n \in 0..MaxAnnotations } }

\* provider outputs
Outputs == UNION { [1..n -> OutputItems] : n \in 1..MaxItems }

\* the dict extract_cited_files appends for a file_citation annotation
CitedFile(annotation) ==
    [file_id |-> annotation.file_id, filename |-> annotation.filename, index |-> annotation.index]

\* extract_cited_files, the innermost loop: the annotations of a content item
RECURSIVE cited_in_annotations(_)
cited_in_annotations(anns) ==
    IF anns = <<>> THEN <<>>
    ELSE (IF "type" \in DOMAIN Head(anns) /\ Head(anns).type = "file_citation"
          THEN <<CitedFile(Head(anns))>> ELSE <<>>)
         \o cited_in_annotations(Tail(anns))

\* extract_cited_files, the middle loop: the content items of an output item
RECURSIVE cited_in_content(_)
cited_in_content(content) ==
    IF content = <<>> THEN <<>>
    ELSE (IF "annotations" \in DOMAIN Head(content) /\ Head(content).annotations # <<>>
          THEN cited_in_annotations(Head(content).annotations) ELSE <<>>)
         \o cited_in_content(Tail(content))

\* extract_cited_files(response_output)
RECURSIVE extract_cited_files(_)
extract_cited_files(response_output) ==
    IF response_output = <<>> THEN <<>>
    ELSE (IF "content" \in DOMAIN Head(response_output) /\ Head(response_output).content # <<>>
          THEN cited_in_content(Head(response_output).content) ELSE <<>>)
         \o extract_cited_files(Tail(response_output))

\* `for citation in file_citations: if citation not in sources: sources.append(citation)`
RECURSIVE AppendNew(_, _)
AppendNew(sources, citations) ==
    IF citations = <<>> THEN sources
    ELSE AppendNew(IF \E i \in 1..Len(sources) : sources[i] = Head(citations)
                   THEN sources ELSE Append(sources, Head(citations)),
                   Tail(citations))

\* a Responses-API reply: one response with its output, or a stream of chunks that each
\* carry an output of one item
CitationInit ==
    /\ ClientIdle
    /\ RegistryIdle
    /\ tools_list = <<>> /\ api_type = "responses" /\ prepared = [called |-> FALSE]
    /\ route = [called |-> FALSE, model |-> GPT, api_key |-> API_KEY]
    /\ built = [called |-> FALSE]
    /\ \E out \in Outputs, mode \in {"response", "stream"} :
          cite = [done |-> FALSE, mode |-> mode, output |-> out,
                  chunks |-> IF mode = "stream" THEN [i \in 1..Len(out) |-> <<out[i]>>] ELSE <<>>,
                  sources |-> <<>>]

\* handle_responses_api returns: "sources": extract_cited_files(response.output)
ExtractSources ==
    /\ ~cite.done /\ cite.mode = "response"
    /\ cite' = [cite EXCEPT !.done = TRUE, !.sources = extract_cited_files(cite.output)]
    /\ UNCHANGED <<clientVars, registryVars, adapterVars, threadVars, endpointVars, route, built>>

\* stream_responses_api, one chunk with an output: its new citations are appended
CollectCitations ==
    /\ ~cite.done /\ cite.mode = "stream"
    /\ cite.chunks # <<>>
    /\ cite' = [cite EXCEPT !.chunks = Tail(cite.chunks),
                            !.sources = AppendNew(cite.sources, extract_cited_files(Head(cite.chunks)))]
    /\ UNCHANGED <<clientVars, registryVars, adapterVars, threadVars, endpointVars, route, built>>

\* stream_responses_api returns: "sources": sources
ReturnSources ==
    /\ ~cite.done /\ cite.mode = "stream"
    /\ cite.chunks = <<>>
    /\ cite' = [cite EXCEPT !.done = TRUE]
    /\ UNCHANGED <<clientVars, registryVars, adapterVars, threadVars, endpointVars, route, built>>

CitationNext ==
    \/ ExtractSources
    \/ CollectCitations
    \/ ReturnSources

CitationSpec == CitationInit /\ [][CitationNext]_vars

(***************************************************************************)
(* What the properties below read off a state.                             *)
(***************************************************************************)
\* a follow-up request has been sent: the latest request comes after a reply
\* whose tool calls were processed
FollowUpSent ==
    /\ op = "response"
    /\ replies # <<>>
    /\ Len(requests) = Len(replies) + 1

\* the tool results a follow-up request of the path carries, in its order
FedBack(path, req) ==
    CASE path = "completions" ->
           LET msgs == req.messages
               asst == {i \in 1..Len(msgs) : msgs[i].role = "assistant"}
               a == CHOOSE i \in asst : \A j \in asst : j <= i
           IN [i \in 1..(Len(msgs) - a) |->
                 [id |-> msgs[a + i].tool_call_id, output |-> msgs[a + i].content]]
      [] path = "responses" ->
           LET IsOutput(x) == "type" \in DOMAIN x /\ x.type = "function_call_output"
               outs == SelectSeq(req.input, IsOutput)
           IN [i \in 1..Len(outs) |->
                 [id |-> outs[i].call_id, output |-> outs[i].output]]
      [] OTHER ->
           [i \in 1..Len(req.tool_results) |->
              [id |-> req.tool_results[i].tool_call_id,
               output |-> req.tool_results[i].output]]

\* the vendor error behind a raised exception
UnderlyingError(e) == IF "cause" \in DOMAIN e THEN e.cause ELSE e

\* the name of a tool call, whatever its shape
NameOf(call) == extract_tool_info(call).name

\* the message of the failure a call of get_weather runs into: unparsable
\* arguments, or arguments without the required location; NoneAtom if none
FailureOf(call) ==
    IF "input" \in DOMAIN call
    THEN IF DOMAIN call.input = {} THEN MISSING_ARG ELSE NoneAtom
    ELSE CASE extract_tool_info(call).arguments = ARGS_BAD -> JSON_ERROR
           [] extract_tool_info(call).arguments = ARGS_EMPTY -> MISSING_ARG
           [] OTHER -> NoneAtom

(***************************************************************************)
(* C1                                                                      *)
(***************************************************************************)
\* the scenario of C1: response() on the Chat Completions path got two
\* replies, the first with exactly one call of get_weather with the JSON
\* arguments {"location": "Paris"}, the second without tool calls
C1_Scenario ==
    /\ entry = "client" /\ op = "response" /\ Path = "completions"
    /\ pc = "done"
    /\ Len(replies) = 2
    /\ Len(replies[1].tool_calls) = 1
    /\ replies[1].tool_calls[1].function.name = "get_weather"
    /\ replies[1].tool_calls[1].function.arguments = ARGS_PARIS
    /\ replies[2].tool_calls = <<>>

\* C1: in AsyncLLMClient.response over the Chat Completions path, when the
\* first reply carries exactly one call of the registered tool with JSON
\* arguments A and the second reply carries none, the tool is invoked exactly
\* once with the parsed A, its result goes back under the call's id, exactly
\* two provider calls are made, and the text and the token counts returned
\* are those of the second reply.
C1_Theorem ==
    C1_Scenario =>
        /\ Len(invocations) = 1
        /\ invocations[1].name = "get_weather"
        /\ invocations[1].args = [location |-> "Paris"]
        /\ Len(requests) = 2
        /\ FedBack("completions", requests[2]) =
             <<[id |-> replies[1].tool_calls[1].id,
                output |-> JsonDumps([location |-> "Paris", unit |-> "celsius"])]>>
        /\ result.kind = "return"
        /\ result.value.text = replies[2].text
        /\ result.value.input_tokens = replies[2].input_tokens
        /\ result.value.output_tokens = replies[2].output_tokens

C1_Witness == C1_Scenario

(***************************************************************************)
(* C2                                                                      *)
(***************************************************************************)
\* C2, as stated: whenever a reply carries a tool call of an unregistered
\* name, the request does not end by returning that reply: a follow-up
\* request goes out, carrying for that call a result whose output contains
\* "not found in registry".
C2_Original ==
    (op = "response" /\ pc = "done") =>
        \A n \in 1..Len(replies) :
            \A i \in 1..Len(replies[n].tool_calls) :
                LET call == replies[n].tool_calls[i]
                IN (~has_tool(NameOf(call)) /\ call.type = NativeType(Path)) =>
                       /\ Len(requests) > n
                       /\ \E j \in 1..Len(FedBack(Path, requests[n + 1])) :
                             LET fed == FedBack(Path, requests[n + 1])[j]
                             IN /\ fed.id = ResultId(call)
                                /\ Contains(fed.output, <<"not found in registry">>)

(***************************************************************************)
(* C3                                                                      *)
(***************************************************************************)
\* C3: in every tool-call round of every orchestrator, the follow-up request
\* carries exactly one result per tool call detected in the reply, in the
\* order of the calls, each under its call's id, the result of an
\* unregistered one being an error string naming the missing tool.
C3_Theorem ==
    FollowUpSent =>
        LET fed == FedBack(Path, Last(requests))
        IN /\ Len(fed) = Len(RoundCalls)
           /\ \A i \in 1..Len(RoundCalls) :
                 /\ fed[i].id = ResultId(RoundCalls[i])
                 /\ ~has_tool(NameOf(RoundCalls[i])) =>
                        Contains(fed[i].output, <<"not found in registry">>)

\* a round of two calls, the first registered and the second not, fed back
C3_Witness ==
    /\ FollowUpSent
    /\ Len(RoundCalls) = 2
    /\ has_tool(NameOf(RoundCalls[1]))
    /\ ~has_tool(NameOf(RoundCalls[2]))

(***************************************************************************)
(* C4                                                                      *)
(***************************************************************************)
\* C4, as stated: handle_chat_completions_api and handle_responses_api,
\* entered with current_tool_call_depth = max_tool_call_depth, make no
\* provider call and return the fixed fallback text with 0 input and 0
\* output tokens.
C4_Original ==
    (/\ op = "response"
     /\ Path \in {"completions", "responses"}
     /\ current_tool_call_depth = max_tool_call_depth) =>
        /\ pc \notin {"await", "scan"}
        /\ pc = "done" =>
              /\ result.kind = "return"
              /\ result.value.text = MAX_DEPTH_TEXT
              /\ result.value.input_tokens = 0
              /\ result.value.output_tokens = 0

(***************************************************************************)
(* C5                                                                      *)
(***************************************************************************)
\* C5, as stated: when max_tool_call_depth rounds have been executed and the
\* provider's next reply still carries tool calls, the request returns the
\* fixed maximum-depth text with 0 input and 0 output tokens.
C5_Original ==
    (/\ entry = "client" /\ op = "response"
     /\ Path \in {"completions", "responses"}
     /\ pc = "done"
     /\ current_tool_call_depth = max_tool_call_depth
     /\ Len(replies) = max_tool_call_depth + 1
     /\ RoundCalls # <<>>) =>
        /\ result.kind = "return"
        /\ result.value.text = MAX_DEPTH_TEXT
        /\ result.value.input_tokens = 0
        /\ result.value.output_tokens = 0

(***************************************************************************)
(* C6                                                                      *)
(***************************************************************************)
\* C6: a tool call whose arguments fail to parse, or whose registered
\* callable raises, yields exactly one tool result, under its id and at its
\* place among the results of all the calls of the round, whose output is an
\* error string containing the underlying message; only a failed vendor call
\* is ever raised; and a reply whose calls were processed is never the one
\* returned: the follow-up request is made.
C6_Theorem ==
    /\ FollowUpSent =>
          LET fed == FedBack(Path, Last(requests))
          IN \A i \in 1..Len(RoundCalls) :
                (has_tool(NameOf(RoundCalls[i])) /\ FailureOf(RoundCalls[i]) # NoneAtom) =>
                    /\ Len(fed) = Len(RoundCalls)
                    /\ fed[i].id = ResultId(RoundCalls[i])
                    /\ Contains(fed[i].output, <<FailureOf(RoundCalls[i])>>)
    /\ (op = "response" /\ result.kind = "raise") =>
          /\ UnderlyingError(result.error) \in VendorErrors
          /\ Len(requests) > Len(replies)
    /\ (op = "response" /\ result.kind = "return" /\ replies # <<>>) =>
          IF Path = "anthropic"
          THEN Len(replies) = 1 => RoundCalls = <<>>
          ELSE ~HasRound

\* a round on the Responses path whose first call has unparsable arguments
\* and whose second call makes the callable raise, fed back
C6_Witness ==
    /\ FollowUpSent
    /\ Path = "responses"
    /\ Len(RoundCalls) = 2
    /\ RoundCalls[1].arguments = ARGS_BAD
    /\ RoundCalls[2].arguments = ARGS_EMPTY

(***************************************************************************)
(* C7                                                                      *)
(***************************************************************************)
\* C7, as stated: no call whose type tag is_internal_tool classifies as
\* internal is ever passed to ToolRegistry.execute_tool.
C7_Original ==
    \A k \in 1..Len(invocations) : ~is_internal_tool(invocations[k].type)

(***************************************************************************)
(* C8                                                                      *)
(***************************************************************************)
\* C8, as stated: when the follow-up call of a round fails with an error
\* that is not a shape rejection, the request returns a response carrying
\* the text of the reply before it; nothing is raised.
C8_Original ==
    (pc = "done" /\ FollowUpSent) =>
        \/ /\ result.kind = "return"
           /\ Contains(result.value.text, Last(replies).text)
        \/ /\ result.kind = "raise"
           /\ UnderlyingError(result.error).type = "BadRequestError"

(***************************************************************************)
(* C9                                                                      *)
(***************************************************************************)
\* C9, as stated: an error of the provider rejecting the request's shape
\* reaches the caller only after the call was retried once without tools.
C9_Original ==
    (/\ pc = "done"
     /\ result.kind = "raise"
     /\ UnderlyingError(result.error).type = "BadRequestError") =>
        /\ Len(requests) >= 2
        /\ "tools" \notin DOMAIN Last(requests)

(***************************************************************************)
(* C10                                                                     *)
(***************************************************************************)
\* what the caller of response() / stream() holds after a failed vendor
\* call: an exception naming the model and the operation, chained to the
\* vendor error, and no response value
C10_Raised ==
    /\ result.kind = "raise"
    /\ "value" \notin DOMAIN result
    /\ Contains(result.error.msg, model)
    /\ Contains(result.error.msg,
                IF op = "response" THEN <<"Error getting response from ">>
                ELSE <<"Error streaming response from ">>)
    /\ "cause" \in DOMAIN result.error
    /\ result.error.cause \in VendorErrors

\* C10: whenever a vendor call made during AsyncLLMClient.response or
\* AsyncLLMClient.stream fails without being recovered locally, the caller
\* receives a raised exception whose message names the model and the
\* operation and whose cause is the original vendor error, and no response
\* value.
C10_Theorem == [][(entry = "client" /\ ProviderFails) => C10_Raised']_vars

\* a stream through AsyncLLMClient.stream that failed after delivering text
C10_Witness ==
    /\ entry = "client" /\ op = "stream"
    /\ full_text # <<>>
    /\ pc = "done"
    /\ C10_Raised

(***************************************************************************)
(* C11                                                                     *)
(***************************************************************************)
\* C11, as stated: every value AsyncLLMClient.response or
\* AsyncLLMClient.stream returns has all of the fields text, input_tokens,
\* output_tokens, response_id and sources, its text is a string and not
\* None, and its token counts are integers >= 0.
C11_Original ==
    (entry = "client" /\ result.kind = "return") =>
        /\ {"text", "input_tokens", "output_tokens", "response_id", "sources"}
              \subseteq DOMAIN result.value
        /\ result.value.text # None
        /\ result.value.input_tokens \in Nat
        /\ result.value.output_tokens \in Nat

(***************************************************************************)
(* C12                                                                     *)
(***************************************************************************)
\* C12, as stated: the response_id of the value AsyncLLMClient.response or
\* AsyncLLMClient.stream returns is None on every path but the Responses
\* API path.
C12_Original ==
    (entry = "client" /\ result.kind = "return" /\ Path # "responses") =>
        result.value.response_id = None

(***************************************************************************)
(* C13                                                                     *)
(***************************************************************************)
\* C13: after any sequence of register, unregister, clear_cache and
\* get_schemas calls, get_schemas(provider) returns exactly one schema per
\* registered name, in the order of the names in the registry, each the
\* schema of the callable now registered under that name: never a stale
\* list.
C13_Theorem ==
    reg_last.op = "get_schemas" =>
        /\ Len(reg_last.value) = Len(reg_tools)
        /\ \A i \in 1..Len(reg_tools) : reg_last.value[i].func = reg_tools[i].func

\* get_schemas answers for two tools, the first of them re-registered with
\* another callable
C13_Witness ==
    /\ reg_last.op = "get_schemas"
    /\ Len(reg_last.value) = 2
    /\ reg_last.value[1].func = "generic_tool"

(***************************************************************************)
(* C14                                                                     *)
(***************************************************************************)
\* C14: register(name, callable) with a callable that has no schema fails
\* with an error and leaves the registered names, the cached schema lists
\* and the validity flags exactly as they were.
C14_Theorem ==
    [][\A r \in Registrations :
          (Register(r.name, r.func) /\ "tool" \notin Attrs(r.func)) =>
              /\ reg_last'.raised = "ValueError"
              /\ UNCHANGED <<reg_tools, schema_cache, cache_valid>>]_vars

\* a registration refused on a registry that holds a tool and a valid cache
C14_Witness ==
    /\ reg_last.op = "register"
    /\ reg_last.raised = "ValueError"
    /\ reg_tools # <<>>
    /\ \E p \in Providers : IsValid(cache_valid, p)

(***************************************************************************)
(* C15                                                                     *)
(***************************************************************************)
\* what a user of the registry can observe: the registered names, what
\* get_schemas returns for every provider, and the validity of every
\* provider's cache as get_schemas reads it
ObservableState ==
    [names |-> [i \in 1..Len(reg_tools) |-> reg_tools[i].name],
     schemas |-> [p \in Providers |->
                    IF IsValid(cache_valid, p) THEN schema_cache[p]
                    ELSE build_schema_cache(reg_tools, p)],
     valid |-> [p \in Providers |-> IsValid(cache_valid, p)]]

\* the providers clear_cache(provider) clears
ClearedBy(provider) == IF provider = NoneAtom THEN Providers ELSE {provider}

\* the cache clear_cache(provider) is about holds no schema
EmptyCache(provider) ==
    \A q \in ClearedBy(provider) \cap DOMAIN schema_cache : schema_cache[q] = <<>>

\* C15, as stated: unregister of a name that is not registered, and
\* clear_cache on an already-empty cache, raise nothing and leave the
\* registered names, the result of get_schemas for every provider and the
\* validity flags as they were.
C15_Original ==
    [][/\ \A name \in RegistryNames :
             (Unregister(name) /\ name \notin RegNames(reg_tools)) =>
                 (reg_last'.raised = NoneAtom /\ ObservableState' = ObservableState)
       /\ \A provider \in Providers \cup {NoneAtom} :
             (ClearCache(provider) /\ EmptyCache(provider)) =>
                 (reg_last'.raised = NoneAtom /\ ObservableState' = ObservableState)]_vars

\* C15, amended: unregister of a name that is not registered, and
\* clear_cache on a cache that is already cleared (every provider it clears
\* is absent from the cache, or holds an empty list that is not marked
\* valid), raise nothing and leave the registered names, the result of
\* get_schemas for every provider and the validity of every cache as they
\* were.
C15_Theorem ==
    [][/\ \A name \in RegistryNames :
             (Unregister(name) /\ name \notin RegNames(reg_tools)) =>
                 (reg_last'.raised = NoneAtom /\ ObservableState' = ObservableState)
       /\ \A provider \in Providers \cup {NoneAtom} :
             (/\ ClearCache(provider)
              /\ EmptyCache(provider)
              /\ \A q \in ClearedBy(provider) : ~IsValid(cache_valid, q)) =>
                 (reg_last'.raised = NoneAtom /\ ObservableState' = ObservableState)]_vars

\* an unregister of a name that is not registered, on a registry that holds
\* another tool and a valid cache
C15_Witness ==
    /\ reg_last.op = "unregister"
    /\ reg_last.name \notin RegNames(reg_tools)
    /\ reg_tools # <<>>
    /\ \E p \in Providers : IsValid(cache_valid, p)

(***************************************************************************)
(* C16                                                                     *)
(***************************************************************************)
\* C16, as stated: changing, in place, any part of an entry of
\* get_schemas("openai") or get_schemas("anthropic") never changes an entry
\* of the other flavor: no object of the entry changed belongs to an entry
\* of the other list.
C16_Original ==
    reg_last.op = "mutate" =>
        \A q \in {"openai", "anthropic"} \ {reg_last.via} :
            \A i \in 1..Len(reg_tools) :
                [func |-> reg_last.func, obj |-> reg_last.obj]
                    \notin PartsOf(build_schema_cache(reg_tools, q)[i])

Canonical(type, t) ==
    IF type = "responses"
    THEN [type |-> "function", name |-> t.name, description |-> t.description, parameters |-> t.parameters]
    ELSE IF type = "completions"
    THEN [type |-> "function",
          function |-> [name |-> t.name, description |-> t.description, parameters |-> t.parameters]]
    ELSE [name |-> t.name, description |-> t.description, input_schema |-> [type |-> "object"] @@ t.parameters]

\* the three accepted input shapes of a logical tool
AcceptedShapes(t) == {NestedShape(t), InputSchemaShape(t), MinimalShape(t)}

\* every shape a function tool arrives in, the schema llm_tool attaches as openai_tool included
FunctionShapes(t) == AcceptedShapes(t) \cup {OpenAIToolShape(t)}

\* the function-tool entries of the model
FunctionEntries == UNION { FunctionShapes(t) : t \in LogicalTools }

\* the logical tool an entry expresses
LogicalOf(tool) == CHOOSE t \in LogicalTools : tool \in FunctionShapes(t)

\* C18: a logical tool given alone, in any of the three accepted input shapes and for any
\* target, is returned as the canonical target-shape entry carrying its own name,
\* description and parameter schema.
C18_Original ==
    prepared.called =>
        \A t \in LogicalTools :
            (Len(prepared.given) = 1 /\ prepared.given[1] \in AcceptedShapes(t))
                => prepared.value = [is_none |-> FALSE, tools |-> <<Canonical(api_type, t)>>]

\* C19: for target 'responses' every entry of the output that is not a built-in tool has
\* type "function" and a non-null name, a description and parameters at the top level and
\* no nested "function", whatever shape it was given in (the openai_tool schema of llm_tool
\* included); the built-in entries of the input are the built-in entries of the output,
\* unchanged and in order.
C19_Original ==
    (prepared.called /\ api_type = "responses") =>
        LET output == IF prepared.value.is_none THEN <<>> ELSE prepared.value.tools
        IN  /\ \A i \in 1..Len(output) :
                \/ output[i] \in BuiltInTools
                \/ /\ {"type", "name", "description", "parameters"} \subseteq DOMAIN output[i]
                   /\ "function" \notin DOMAIN output[i]
                   /\ output[i].type = "function"
                   /\ output[i].name # NoneAtom
            /\ SelectSeq(output, LAMBDA e : e \in BuiltInTools)
                   = SelectSeq(prepared.given, LAMBDA e : e \in BuiltInTools)

\* C20: for target 'completions' every entry of the output has top-level type "function"
\* and a nested "function" object holding the name of the tool it was made from (the
\* function tools of the input, in order), and no built-in tool of the input is in the output.
C20_Theorem ==
    (prepared.called /\ api_type = "completions") =>
        LET output == IF prepared.value.is_none THEN <<>> ELSE prepared.value.tools
            given == SelectSeq(prepared.given, LAMBDA e : e \in FunctionEntries)
        IN  /\ Len(output) = Len(given)
            /\ \A i \in 1..Len(output) :
                /\ {"type", "function"} \subseteq DOMAIN output[i]
                /\ output[i].type = "function"
                /\ "name" \in DOMAIN output[i].function
                /\ output[i].function.name = LogicalOf(given[i]).name
            /\ \A i \in 1..Len(output) : output[i] \notin BuiltInTools

\* a 'completions' call was given a built-in tool next to a function tool and returned a list
C20_Witness ==
    /\ prepared.called
    /\ api_type = "completions"
    /\ ~prepared.value.is_none
    /\ \E i \in 1..Len(prepared.given) : prepared.given[i] \in BuiltInTools
    /\ \E i \in 1..Len(prepared.given) : prepared.given[i] \in FunctionEntries

\* the value prepare_tools_for_api returned, as a list (None as the empty list)
PreparedOutput == IF prepared.value.is_none THEN <<>> ELSE prepared.value.tools

\* an input entry that has a name and any of input_schema, parameters or nested function.parameters
NamedWithSchema(tool) ==
    /\ "name" \in DOMAIN tool
    /\ \/ "input_schema" \in DOMAIN tool
       \/ "parameters" \in DOMAIN tool
       \/ "function" \in DOMAIN tool /\ "parameters" \in DOMAIN tool.function

\* C21: for target 'anthropic' every entry of the output has exactly the keys name,
\* description and input_schema, a non-null name and an input_schema with a "type" key, and
\* every input entry with a name and a schema (input_schema, parameters or nested
\* function.parameters) has its entry in the output.
C21_Original ==
    (prepared.called /\ api_type = "anthropic") =>
        /\ \A i \in 1..Len(PreparedOutput) :
            /\ DOMAIN PreparedOutput[i] = {"name", "description", "input_schema"}
            /\ PreparedOutput[i].name # NoneAtom
            /\ "type" \in DOMAIN PreparedOutput[i].input_schema
        /\ Len(PreparedOutput) >= Len(SelectSeq(prepared.given, NamedWithSchema))


\* where an entry holds its name and description: at the top level or under "function"
NameIn(tool) ==
    IF "name" \in DOMAIN tool THEN tool.name
    ELSE IF "function" \in DOMAIN tool THEN Get(tool.function, "name", NoneAtom) ELSE NoneAtom

DescriptionIn(tool) ==
    IF "description" \in DOMAIN tool THEN tool.description
    ELSE IF "function" \in DOMAIN tool THEN Get(tool.function, "description", NoneAtom) ELSE NoneAtom

\* the logical tools an output entry can have been made from
MadeFrom(tool) == { t \in LogicalTools : NameIn(tool) = t.name \/ DescriptionIn(tool) = t.description }

Unmatched(m) == ~StartsWith(m, CLAUDE_PREFIXES \cup OPENAI_PREFIXES \cup LOCAL_PREFIXES)

TextOf(ev) == IF "text" \in DOMAIN ev THEN <<ev.text>> ELSE <<>>

\* C24: AsyncLLMClient.stream reaches the provider on every path (Anthropic, Responses,
\* Chat Completions), hands every text chunk of the provider stream to stream_handler once
\* and in arrival order, and returns only when the stream is consumed, with a text that is
\* the concatenation of the chunks handed over.
C24_Original ==
    [][(entry = "client" /\ op = "stream") =>
          /\ pc = "enter" => pc' = "await_stream"
          /\ (pc = "streaming" /\ pc' = "streaming") => handled' = handled \o TextOf(Head(stream))
          /\ (pc' = "done" /\ result'.kind = "return") =>
                 /\ stream' = <<>>
                 /\ result'.value.text = handled']_vars

\* C25: a streaming request makes at most two provider calls. Usage counts an event of the
\* stream carries are taken over and, when the stream ends with them, returned unchanged
\* without a second call; the second call (non-streaming, minimal max tokens) is made only
\* when the stream surfaced no counts, output_tokens is then the text length divided by 4,
\* and whether it answers or fails the request returns a response.
C25_Original ==
    [][op = "stream" =>
          /\ Len(requests') <= 2
          /\ (pc = "streaming" /\ pc' = "streaming") =>
                 IF "usage" \in DOMAIN Head(stream)
                 THEN /\ input_tokens' = Head(stream).usage.input_tokens
                      /\ output_tokens' = Head(stream).usage.output_tokens
                 ELSE UNCHANGED <<input_tokens, output_tokens>>
          /\ (pc = "streaming" /\ pc' = "await_usage") =>
                 /\ input_tokens = 0 /\ output_tokens = 0
                 /\ Last(requests').stream = FALSE
          /\ (pc = "streaming" /\ pc' = "done" /\ result'.kind = "return") =>
                 /\ Len(requests) = 1
                 /\ result'.value.input_tokens = input_tokens /\ input_tokens > 0
                 /\ result'.value.output_tokens = output_tokens /\ output_tokens > 0
          /\ pc = "await_usage" =>
                 /\ pc' = "done"
                 /\ result'.kind = "return"
                 /\ result'.value.output_tokens = TextLen(full_text) \div CHARS_PER_TOKEN]_vars

\* the contents of the entries of a message list with a system or developer role
SystemEntries(msgs) ==
    LET picked == SelectSeq(msgs, LAMBDA m : "role" \in DOMAIN m /\ m.role \in {"system", "developer"})
    IN  [i \in 1..Len(picked) |-> picked[i].content]

\* every system prompt a request carries: its system-prompt slot and the system or developer
\* entries of its message list
SystemPrompts(request) ==
    CASE request.api = "chat.completions.create" -> SystemEntries(request.messages)
      [] request.api = "responses.create" ->
           (IF "instructions" \in DOMAIN request THEN <<request.instructions>> ELSE <<>>)
               \o SystemEntries(request.input)
      [] OTHER -> <<request.system>> \o SystemEntries(request.messages)

\* C26: for every provider family, a conversation with more than one system/developer entry
\* gives a request with exactly one system prompt, the content of the last such entry.
C26_Original ==
    (built.called /\ Len(SystemEntries(built.input.val)) > 1) =>
        SystemPrompts(built.request) = <<Last(SystemEntries(built.input.val))>>

\* the file-citation annotations of a provider output
FileCitations(output) ==
    { a \in UNION { { it.content[1].annotations[k] : k \in 1..Len(it.content[1].annotations) } :
                      it \in { output[i] : i \in { j \in 1..Len(output) : output[j].type = "message" } } } :
        a.type = "file_citation" }

\* C27: the sources of the final response of the Responses-API path, single-shot or
\* streaming, hold the record of every file-citation annotation of the provider output and
\* hold no record twice.
C27_Original ==
    cite.done =>
        /\ \A a \in FileCitations(cite.output) :
               \E i \in 1..Len(cite.sources) : cite.sources[i] = CitedFile(a)
        /\ \A i, j \in 1..Len(cite.sources) : cite.sources[i] = cite.sources[j] => i = j

\* the latest reply contains a tool call whose type tag is not internal
HasExternalCalls(reply) ==
    \E i \in 1..Len(reply.tool_calls) : ~is_internal_tool(reply.tool_calls[i].type)

\* the tool-call rounds the request has gone through: the depth counter of the recursive
\* orchestrators, the follow-up requests of the Anthropic orchestrator
RoundsDone ==
    IF Path = "anthropic" THEN (IF Len(requests) > 1 THEN Len(requests) - 1 ELSE 0)
    ELSE current_tool_call_depth

\* C28: in every provider family a reply with non-internal tool calls that arrives while the
\* depth budget is not exhausted starts a round (the calls are executed, another provider
\* call follows), and a reply with tool calls is returned as the final answer only when the
\* budget is exhausted.
C28_Original ==
    [][op = "response" =>
          /\ (pc = "scan" /\ HasExternalCalls(Last(replies)) /\ RoundsDone < max_tool_call_depth)
                 => pc' = "tools"
          /\ (pc \in {"scan", "await_followup"} /\ pc' = "done" /\ result'.kind = "return"
               /\ HasExternalCalls(Last(replies')))
                 => RoundsDone' >= max_tool_call_depth]_vars

\* C29: during one call of AsyncLLMClient.response with max_tool_call_depth = M, whatever
\* the provider and the tools do, at most M + 1 provider calls are made (so the call
\* terminates), the depth counter never exceeds M, and it increases by exactly one when a
\* tool-call round is completed and at no other time.
C29_Original ==
    [][(entry = "client" /\ op = "response") =>
          /\ Len(requests') <= max_tool_call_depth + 1
          /\ current_tool_call_depth' <= max_tool_call_depth
          /\ IF pc = "tools" /\ pc' # "tools"
             THEN current_tool_call_depth' = current_tool_call_depth + 1
             ELSE current_tool_call_depth' = current_tool_call_depth]_vars

\* the ids of the calls of the current round for which a tool is executed, in the order the
\* provider returned the calls
ExecutedIds ==
    LET executed == SelectSeq(RoundCalls, LAMBDA call : ToolResultOf(call).executed)
    IN  [i \in 1..Len(executed) |-> ResultId(executed[i])]

\* the ids of `started` that belong to the current round
StartedThisRound ==
    SelectSeq(started, LAMBDA id : \E i \in 1..Len(RoundCalls) : ResultId(RoundCalls[i]) = id)

\* at most one tool is running, tools complete in the order they start, and within the round
\* they start in the order the provider returned the calls
C30_Sequential ==
    /\ Len(started) - Len(invocations) \in {0, 1}
    /\ \A k \in 1..Len(invocations) : invocations[k].tool_call_id = started[k]
    /\ pc = "tools" =>
          /\ Len(StartedThisRound) <= Len(ExecutedIds)
          /\ StartedThisRound = SubSeq(ExecutedIds, 1, Len(StartedThisRound))

\* C30: within a round the tool executions never overlap and follow the order of the
\* provider's calls, and the round is left for the follow-up provider call only when every
\* call of the round has a result filed and no tool is running.
C30_Theorem ==
    [][op = "response" =>
          /\ C30_Sequential'
          /\ (pc = "tools" /\ pc' # "tools") =>
                 /\ Len(started) = Len(invocations)
                 /\ StartedThisRound = ExecutedIds
                 /\ Len(tool_responses) = Len(RoundCalls)]_vars

\* a round of two executed calls: the second tool is running, the first has completed
C30_Witness ==
    /\ pc = "tools"
    /\ Len(RoundCalls) = 2
    /\ idx = 2
    /\ Len(StartedThisRound) = 2
    /\ Len(started) = Len(invocations) + 1

(***************************************************************************)
(* C31                                                                     *)
(***************************************************************************)
\* the ids of the tool calls of a provider reply, in the shape of the path
CallIdsOf(reply) ==
    {ResultId(reply.tool_calls[i]) : i \in 1..Len(reply.tool_calls)}

\* the role "tool" message at position i of a message list stands in the block of tool
\* messages that directly follows an assistant message announcing its tool_call_id
AnnouncedBefore(msgs, i) ==
    \E j \in 1..(i - 1) :
        /\ msgs[j].role = "assistant"
        /\ "tool_calls" \in DOMAIN msgs[j]
        /\ msgs[i].tool_call_id \in
             {msgs[j].tool_calls[c].id : c \in 1..Len(msgs[j].tool_calls)}
        /\ \A m \in (j + 1)..(i - 1) : msgs[m].role = "tool"

\* C31: in every follow-up request an orchestrator builds, each tool result carries the id
\* of a tool call of the provider reply that triggered the round; on the Chat Completions
\* path every role "tool" message stands in the block of tool messages directly after an
\* assistant message whose tool_calls include its tool_call_id; on the Responses path
\* every function_call_output carries the call_id of a function call of that reply.
C31_Theorem ==
    op = "response" =>
        \A k \in 2..Len(requests) :
            LET fed == FedBack(Path, requests[k])
            IN /\ \A i \in 1..Len(fed) : fed[i].id \in CallIdsOf(replies[k - 1])
               /\ Path = "completions" =>
                     \A i \in 1..Len(requests[k].messages) :
                         requests[k].messages[i].role = "tool" =>
                             AnnouncedBefore(requests[k].messages, i)
               /\ Path = "responses" =>
                     \A i \in 1..Len(requests[k].input) :
                         ("type" \in DOMAIN requests[k].input[i]
                          /\ requests[k].input[i].type = "function_call_output") =>
                             requests[k].input[i].call_id \in
                                 {c.call_id : c \in
                                    {DetectFunctionCalls(replies[k - 1].tool_calls)[n] :
                                       n \in 1..Len(DetectFunctionCalls(replies[k - 1].tool_calls))}}

\* a follow-up request that carries the results of a round of two tool calls, on the
\* Chat Completions path or on the Responses path
C31_Witness ==
    /\ op = "response"
    /\ Path \in {"completions", "responses"}
    /\ Len(requests) >= 2
    /\ Len(FedBack(Path, requests[2])) = 2

(***************************************************************************)
(* C32                                                                     *)
(***************************************************************************)
\* C32: on the Responses path every follow-up request issued after a tool-call round
\* carries previous_response_id equal to the id of the provider response that requested
\* the tool calls, whatever previous_response_id the caller supplied for the first
\* request, and the response_id returned is the id of the last provider response.
C32_Theorem ==
    (op = "response" /\ Path = "responses") =>
        /\ \A k \in 2..Len(requests) :
              /\ "previous_response_id" \in DOMAIN requests[k]
              /\ requests[k].previous_response_id = replies[k - 1].id
        /\ (result.kind = "return" /\ replies # <<>>) =>
              result.value.response_id = Last(replies).id

\* a request whose caller supplied a previous_response_id went through a tool-call round
\* and returned
C32_Witness ==
    /\ op = "response" /\ Path = "responses"
    /\ result.kind = "return"
    /\ Len(requests) >= 2
    /\ "previous_response_id" \in DOMAIN requests[1]
    /\ requests[1].previous_response_id = CALLER_RESPONSE_ID

(***************************************************************************)
(* C33                                                                     *)
(***************************************************************************)
\* the schema variants of a callable that hold a given object
VariantsHolding(func, obj) == {attr \in Attrs(func) : obj \in ObjectsOf(attr)}

\* the parameter schema of a variant and what it holds
SchemaObjects ==
    {"parameters", "parameters.properties", "parameters.required",
     "anthropic_tool.input_schema", "input_schema.properties", "input_schema.required"}

\* C33, as stated: the three schema variants llm_tool attaches to one callable share no
\* mutable structure: a change made in place to the parameters, the properties or the
\* required list of one variant is a change of an object that no other variant of the
\* callable holds.
C33_Original ==
    (/\ reg_last.op = "mutate"
     /\ Attrs(reg_last.func) = {"tool", "openai_tool", "anthropic_tool"}
     /\ reg_last.obj \in SchemaObjects) =>
        Cardinality(VariantsHolding(reg_last.func, reg_last.obj)) = 1

(***************************************************************************)
(* C34                                                                     *)
(***************************************************************************)
\* C34, as stated: prepare_tools_for_api is pure: for every target the caller's list and
\* every entry of it, nested function and input_schema objects included, are after the
\* call exactly what they were before it.
C34_Original == prepared.called => tools_list = prepared.given

(***************************************************************************)
(* C35                                                                     *)
(***************************************************************************)
\* the latest operation on the registry completed without raising, a register of a
\* callable that has no schema aside
CompletedWithoutError ==
    ("raised" \in DOMAIN reg_last /\ reg_last.raised # NoneAtom) =>
        (reg_last.op = "register" /\ "tool" \notin Attrs(reg_last.func))

\* what get_schemas(provider) returns when it is called now and runs undisturbed
NextSchemas(provider) ==
    IF provider \in DOMAIN schema_cache /\ IsValid(cache_valid, provider)
    THEN schema_cache[provider]
    ELSE build_schema_cache(reg_tools, provider)

\* C35, as stated: under any interleaving of concurrent get_schemas, register, unregister
\* and clear_cache operations on one shared ToolRegistry no operation fails, and no
\* invalidation is lost: once every operation has completed, the next
\* get_schemas(provider) returns the schemas of exactly the registered tools.
C35_Original ==
    /\ CompletedWithoutError
    /\ task = NoTask =>
          \A provider \in Providers :
              NextSchemas(provider) = build_schema_cache(reg_tools, provider)

(***************************************************************************)
(* C36                                                                     *)
(***************************************************************************)
\* C36, as stated: every provider request that carries tools carries them translated by
\* prepare_tools_for_api to the shape of the provider it goes to, whether user_input is a
\* string or a message list, on the first request and on every follow-up request.
C36_Original ==
    \A k \in 1..Len(requests) :
        "tools" \in DOMAIN requests[k] => requests[k].tools = api_tools(Path)

(***************************************************************************)
(* C37                                                                     *)
(***************************************************************************)
\* C37, as stated: on one AsyncLLMClient the endpoint that serves a call is determined by
\* the model of that call and the constructor's arguments only: a call whose model routes
\* to openai is served by the client configured at construction (the constructor's
\* base_url and API key), whatever calls were made before it, calls routed to ollama
\* included.
C37_Original ==
    llm_client.constructed =>
        \A i \in 1..Len(llm_client.served) :
            llm_client.served[i].provider = "openai" =>
                llm_client.served[i].client =
                    [vendor |-> "openai", base_url |-> llm_client.base_url,
                     api_key |-> llm_client.api_key]

(***************************************************************************)
(* C38                                                                     *)
(***************************************************************************)
\* C38, as stated: AsyncLLMClient.stream called without a stream_handler, or with a
\* handler that returns a plain value instead of an awaitable, consumes every chunk of the
\* provider stream and returns the response with the full concatenated text; it raises
\* nothing but a failure of the provider.
C38_Original ==
    (/\ op = "stream" /\ entry = "client"
     /\ stream_handler \in {"absent", "plain"}
     /\ ~StreamCallRejected
     /\ pc = "done") =>
        \/ /\ result.kind = "return"
           /\ stream = <<>>
           /\ result.value.text = full_text
        \/ /\ result.kind = "raise"
           /\ UnderlyingError(result.error) \in VendorErrors

(***************************************************************************)
(* C39                                                                     *)
(***************************************************************************)
\* C39, as stated: on the Chat Completions path the history is append-only across rounds:
\* the message list of the follow-up request is the message list of the preceding request
\* (no message dropped or reordered, system messages made from developer entries or from
\* the instructions included) followed by the assistant tool-call message and the tool
\* results; that is, prepare_messages applied to its own output changes nothing.
C39_Original ==
    "followup" \in DOMAIN built =>
        built.followup.messages = built.request.messages \o RoundMessages

(***************************************************************************)
(* C40                                                                     *)
(***************************************************************************)
\* the list get_schemas("openai") hands out for functions decorated with llm_tool
IsRegistrySchemas(tools) ==
    /\ tools # <<>>
    /\ \A i \in 1..Len(tools) : tools[i] \in {OpenAIToolShape(t) : t \in LogicalTools}

\* C40, as stated: the tools payload sent to a target is a function of the registered tools
\* and the target only: a request sends the payload a request to that target on a fresh
\* client with the same registry sends, whichever request (to the same or to another target,
\* such as a Chat Completions request before a Responses request) was made before it.
C40_Original ==
    ("again" \in DOMAIN prepared /\ IsRegistrySchemas(prepared.given)
        /\ {api_type, prepared.again.type} \subseteq {"responses", "completions"}) =>
        prepared.again.value = prepare_tools_for_api(prepared.given, prepared.again.type)

====
